---------------------------- MODULE Spec2Model ----------------------------
(***************************************************************************)
(* A model of the social-media post generator: the thread splitter and the *)
(* validator of src/src/agent.py, save_post of src/src/cli.py, the research *)
(* cache of src/src/research_cache.py, research_topic of                   *)
(* src/src/researcher_agent.py and search of src/src/web_search.py.        *)
(*                                                                         *)
(* A Python str is a sequence of one-character strings, so len, slicing,   *)
(* split, strip and the regular expressions are computed on characters.    *)
(***************************************************************************)
EXTENDS Integers, Sequences, FiniteSets, TLC

(***************************************************************************)
(* Characters and the str operations the code uses                         *)
(***************************************************************************)

\* str.isspace for the characters of the model: what \s and str.split() match.
IsSpace(c) == c \in {" ", "\n"}

\* What \w matches: letters, digits and the underscore.
IsWordChar(c) == c \in {"a", "b", "c", "d", "e", "f", "g", "h", "w", "N", "_",
                        "0", "1", "2", "3", "4", "5", "6", "7", "8", "9"}

\* The characters of the class [.!?] in the sentence pattern.
IsSentenceEnd(c) == c \in {".", "!", "?"}

\* c * n
Rep(c, n) == [i \in 1..n |-> c]

\* The least element of a non-empty set of integers.
MinOf(S) == CHOOSE x \in S : \A y \in S : x <= y

\* sorted(S) for a finite set S of integers in lo..hi, by halving the range.
RECURSIVE SortedIn(_, _, _)
SortedIn(S, lo, hi) ==
  IF S = {} THEN <<>>
  ELSE IF lo = hi THEN <<lo>>
  ELSE LET mid == (lo + hi) \div 2
       IN SortedIn({x \in S : x <= mid}, lo, mid)
            \o SortedIn({x \in S : x > mid}, mid + 1, hi)

\* sorted(S) for a set S of indexes into a sequence of length n.
SortedSeq(S, n) == SortedIn(S, 0, n)

\* "".join(parts)
RECURSIVE ConcatAll(_)
ConcatAll(parts) == IF parts = <<>> THEN <<>>
                    ELSE Head(parts) \o ConcatAll(Tail(parts))

\* sep.join(parts)
RECURSIVE JoinWith(_, _)
JoinWith(parts, sep) ==
  IF parts = <<>> THEN <<>>
  ELSE IF Len(parts) = 1 THEN parts[1]
  ELSE parts[1] \o sep \o JoinWith(Tail(parts), sep)

\* str(n) for n >= 0: the decimal digits.
RECURSIVE ToDigits(_)
ToDigits(n) ==
  LET d == <<"0", "1", "2", "3", "4", "5", "6", "7", "8", "9">>[(n % 10) + 1]
  IN IF n < 10 THEN <<d>> ELSE ToDigits(n \div 10) \o <<d>>

\* s.strip(): leading and trailing whitespace removed.
Strip(s) ==
  LET n == Len(s)
      firsts == {i \in 1..n : ~IsSpace(s[i]) /\ \A j \in 1..(i-1) : IsSpace(s[j])}
      lasts == {i \in 1..n : ~IsSpace(s[i]) /\ \A j \in (i+1)..n : IsSpace(s[j])}
  IN IF firsts = {} THEN <<>>
     ELSE SubSeq(s, CHOOSE i \in firsts : TRUE, CHOOSE i \in lasts : TRUE)

\* The index of the last character of the run of characters satisfying the
\* class of s[i] that starts at i (space: TRUE for \s+, FALSE for \w+).
RunEnd(s, i, space) ==
  LET In(c) == IF space THEN IsSpace(c) ELSE IsWordChar(c)
  IN CHOOSE e \in i..Len(s) :
       /\ \A k \in i..e : In(s[k])
       /\ (e = Len(s) \/ ~In(s[e+1]))

\* s.split(): the maximal runs of non-whitespace, in order.
SplitWhitespace(s) ==
  LET n == Len(s)
      starts == {i \in 1..n : ~IsSpace(s[i]) /\ (i = 1 \/ IsSpace(s[i-1]))}
      ends == {i \in 1..n : ~IsSpace(s[i]) /\ (i = n \/ IsSpace(s[i+1]))}
      st == SortedSeq(starts, n)
      en == SortedSeq(ends, n)
  IN [k \in 1..Len(st) |-> SubSeq(s, st[k], en[k])]

\* Whether sep occurs in s at index i.
OccursAt(s, sep, i) ==
  /\ i + Len(sep) - 1 <= Len(s)
  /\ \A k \in 1..Len(sep) : s[i + k - 1] = sep[k]

\* The start indexes of the occurrences of sep that s.split(sep) cuts at:
\* leftmost first, none overlapping the one before it.
RECURSIVE CutPoints(_, _, _)
CutPoints(occ, from, width) ==
  LET left == {i \in occ : i >= from}
  IN IF left = {} THEN <<>>
     ELSE LET i == MinOf(left) IN <<i>> \o CutPoints(occ, i + width, width)

\* s.split(sep) for a non-empty separator.
SplitOn(s, sep) ==
  LET n == Len(s)
      w == Len(sep)
      occ == {i \in 1..n : s[i] = sep[1] /\ OccursAt(s, sep, i)}
      cuts == CutPoints(occ, 1, w)
      m == Len(cuts)
  IN [k \in 1..(m+1) |->
        SubSeq(s, IF k = 1 THEN 1 ELSE cuts[k-1] + w,
                  IF k = m + 1 THEN n ELSE cuts[k] - 1)]


(***************************************************************************)
(* The thread splitter: SocialMediaAgent._split_into_thread                *)
(***************************************************************************)

MAX_TWEET_LENGTH == 280

\* The thread-start glyph: one character, neither whitespace nor a word character.
THREAD_MARKER == "thread"

\* Where HASHTAG_PATTERN (#\w+) matches in s: a "#" followed by a word
\* character; a match runs to the end of the word and holds no other "#".
HashtagStarts(s) == {i \in 1..(Len(s) - 1) : s[i] = "#" /\ IsWordChar(s[i+1])}

\* re.findall(HASHTAG_PATTERN, content): the matches, in order.
FindHashtags(s) ==
  LET st == SortedSeq(HashtagStarts(s), Len(s))
  IN [k \in 1..Len(st) |-> SubSeq(s, st[k], RunEnd(s, st[k] + 1, FALSE))]

\* re.sub(HASHTAG_PATTERN, "", content): the text between the matches.
RemoveHashtags(s) ==
  LET st == SortedSeq(HashtagStarts(s), Len(s))
      m == Len(st)
      en == [k \in 1..m |-> RunEnd(s, st[k] + 1, FALSE)]
  IN ConcatAll([k \in 1..(m+1) |->
        SubSeq(s, IF k = 1 THEN 1 ELSE en[k-1] + 1,
                  IF k = m + 1 THEN Len(s) ELSE st[k] - 1)])

\* re.split(r"(?<=[.!?])\s+", content): cut at every run of whitespace that
\* follows a sentence-ending character.
SplitSentences(s) ==
  LET n == Len(s)
      st == SortedSeq({i \in 2..n : IsSpace(s[i]) /\ IsSentenceEnd(s[i-1])}, n)
      m == Len(st)
      en == [k \in 1..m |-> RunEnd(s, st[k], TRUE)]
  IN [k \in 1..(m+1) |->
        SubSeq(s, IF k = 1 THEN 1 ELSE en[k-1] + 1,
                  IF k = m + 1 THEN n ELSE st[k] - 1)]

\* counter_text of the packing loop: the literal letter N stands for the total.
PackCounterText(tweet_count) ==
  IF tweet_count > 0
  THEN <<" ", "(">> \o ToDigits(tweet_count + 1) \o <<"/", "N", ")">>
  ELSE <<>>

\* An iteration that cuts a sentence to the length of a tweet before it
\* packs it.
PackStepCutting(acc, sentence) ==
  LET cut == IF Len(sentence) > MAX_TWEET_LENGTH
             THEN SubSeq(sentence, 1, MAX_TWEET_LENGTH) ELSE sentence
      potential_length == Len(acc.current_tweet) + Len(cut) + 1
      counter_text == PackCounterText(acc.tweet_count)
  IN IF potential_length + Len(counter_text) > MAX_TWEET_LENGTH
     THEN IF acc.current_tweet # <<>>
          THEN [tweets |-> Append(acc.tweets, Strip(acc.current_tweet)),
                tweet_count |-> acc.tweet_count + 1,
                current_tweet |-> cut]
          ELSE [acc EXCEPT !.current_tweet = cut]
     ELSE [acc EXCEPT !.current_tweet =
             IF @ # <<>> THEN @ \o <<" ">> \o cut ELSE cut]

\* One iteration of the loop over the sentences.
PackStep(acc, sentence) ==
  LET potential_length == Len(acc.current_tweet) + Len(sentence) + 1
      counter_text == PackCounterText(acc.tweet_count)
  IN IF potential_length + Len(counter_text) > MAX_TWEET_LENGTH
     THEN IF acc.current_tweet # <<>>
          THEN [tweets |-> Append(acc.tweets, Strip(acc.current_tweet)),
                tweet_count |-> acc.tweet_count + 1,
                current_tweet |-> sentence]
          ELSE [acc EXCEPT !.current_tweet = sentence]
     ELSE [acc EXCEPT !.current_tweet =
             IF @ # <<>> THEN @ \o <<" ">> \o sentence ELSE sentence]

\* The loop over the sentences, from the first k of them.
RECURSIVE PackLoop(_, _)
PackLoop(sentences, k) ==
  IF k = 0 THEN [tweets |-> <<>>, tweet_count |-> 0, current_tweet |-> <<>>]
  ELSE PackStep(PackLoop(sentences, k - 1), sentences[k])

\* A closing that appends the last buffer even when it is empty.
PackSentencesAlways(sentences) ==
  LET acc == PackLoop(sentences, Len(sentences))
  IN [tweets |-> Append(acc.tweets, Strip(acc.current_tweet)),
      tweet_count |-> acc.tweet_count + 1]

\* The loop and the closing of the last buffer.
PackSentences(sentences) ==
  LET acc == PackLoop(sentences, Len(sentences))
  IN IF acc.current_tweet # <<>>
     THEN [tweets |-> Append(acc.tweets, Strip(acc.current_tweet)),
           tweet_count |-> acc.tweet_count + 1]
     ELSE [tweets |-> acc.tweets, tweet_count |-> acc.tweet_count]

\* A slip in the counter: the placeholder of the packing loop, "N", left in
\* place of the total.
CounterTextPlaceholder(i, tweet_count) ==
  <<" ", "(">> \o ToDigits(i) \o <<"/", "N", ")">>

\* f" ({i + 1}/{tweet_count})" for the tweet at 1-indexed position i.
CounterText(i, tweet_count) ==
  <<" ", "(">> \o ToDigits(i) \o <<"/">> \o ToDigits(tweet_count) \o <<")">>

\* " " + " ".join(hashtags)
HashtagText(hashtags) == <<" ">> \o JoinWith(hashtags, <<" ">>)

\* A slip in the comparison: < for <=.
HashtagsFitStrict(tweet, hashtags) ==
  Len(tweet) + Len(HashtagText(hashtags)) < MAX_TWEET_LENGTH

\* Whether the hashtags are appended to the tweet (already carrying its counter).
HashtagsFit(tweet, hashtags) ==
  Len(tweet) + Len(HashtagText(hashtags)) <= MAX_TWEET_LENGTH

\* The loop that adds the marker, the counters and the hashtags.
AddMarkers(tweets, tweet_count, hashtags) ==
  [i \in 1..Len(tweets) |->
     LET marked == IF i = 1 THEN tweets[i] \o <<" ", THREAD_MARKER>> ELSE tweets[i]
         counted == marked \o CounterText(i, tweet_count)
     IN IF i = Len(tweets) /\ hashtags # <<>> /\ HashtagsFit(counted, hashtags)
        THEN counted \o HashtagText(hashtags)
        ELSE counted]

\* The content once its hashtags are removed.
StrippedBody(content) == Strip(RemoveHashtags(content))

\* _split_into_thread(content)
SplitIntoThread(content) ==
  LET hashtags == FindHashtags(content)
      packed == PackSentences(SplitSentences(StrippedBody(content)))
  IN AddMarkers(packed.tweets, packed.tweet_count, hashtags)


(***************************************************************************)
(* The platform table: Config.PLATFORMS and Config.get_platform_config     *)
(***************************************************************************)

PLATFORMS ==
  [instagram |-> [max_length |-> 2200, hashtag_limit |-> 30,
                  emoji_support |-> TRUE, link_support |-> FALSE],
   linkedin  |-> [max_length |-> 3000, hashtag_limit |-> 5,
                  emoji_support |-> TRUE, link_support |-> TRUE],
   facebook  |-> [max_length |-> 63206, hashtag_limit |-> 10,
                  emoji_support |-> TRUE, link_support |-> TRUE],
   x         |-> [max_length |-> 280, hashtag_limit |-> 5,
                  emoji_support |-> TRUE, link_support |-> TRUE]]

\* The platform names a caller passes: the supported names, two of them also
\* in another letter case, and a name that is not supported.
PlatformNames == {"instagram", "linkedin", "facebook", "x", "X", "LinkedIn", "tiktok"}

\* platform.lower() on the names above.
Lower(platform) ==
  CASE platform = "X" -> "x"
    [] platform = "LinkedIn" -> "linkedin"
    [] OTHER -> platform

\* get_platform_config raises ValueError unless this holds.
IsSupported(platform) == Lower(platform) \in DOMAIN PLATFORMS

\* get_platform_config(platform), when it does not raise.
GetPlatformConfig(platform) == PLATFORMS[Lower(platform)]

(***************************************************************************)
(* The validator: SocialMediaAgent._validate_post                          *)
(***************************************************************************)

\* "\n\n---\n\n"
THREAD_SEPARATOR == <<"\n", "\n", "-", "-", "-", "\n", "\n">>

\* A slip in the slice: content[: max_length] + "...".
TruncateWholeLength(content, max_length) ==
  SubSeq(content, 1, max_length) \o <<".", ".", ".">>

\* content[: max_length - 3] + "..."
Truncate(content, max_length) ==
  SubSeq(content, 1, max_length - 3) \o <<".", ".", ".">>

\* The first branch: the thread for platform "x", the length limit otherwise.
ThreadOrTruncate(platform, content, config) ==
  IF platform = "x"
  THEN JoinWith(SplitIntoThread(content), THREAD_SEPARATOR)
  ELSE IF Len(content) > config.max_length
       THEN Truncate(content, config.max_length)
       ELSE content

\* [tag for tag in content.split() if tag.startswith("#")], counted.
HashtagCount(content) ==
  LET tokens == SplitWhitespace(content)
  IN Cardinality({k \in 1..Len(tokens) : tokens[k][1] = "#"})

\* A trimming that takes out the last hashtags over the limit and keeps
\* every other token.
TrimHashtagsOnly(content, hashtag_limit) ==
  LET tokens == SplitWhitespace(content)
      excess == HashtagCount(content) - hashtag_limit
      tagsFrom(k) == Cardinality({j \in k..Len(tokens) : tokens[j][1] = "#"})
      kept == SelectSeq([k \in 1..Len(tokens) |-> k],
                        LAMBDA k : ~(tokens[k][1] = "#" /\ tagsFrom(k) <= excess))
  IN IF excess > 0
     THEN JoinWith([i \in 1..Len(kept) |-> tokens[kept[i]]], <<" ">>)
     ELSE content

\* " ".join(content.split()[: -len(hashtags) + hashtag_limit]) when there
\* are more hashtags than the limit.
TrimHashtags(content, hashtag_limit) ==
  LET tokens == SplitWhitespace(content)
      excess == HashtagCount(content) - hashtag_limit
  IN IF excess > 0
     THEN JoinWith(SubSeq(tokens, 1, Len(tokens) - excess), <<" ">>)
     ELSE content

\* final_content as _validate_post computes it (the platform is supported).
ValidatedContent(platform, content) ==
  LET config == GetPlatformConfig(platform)
  IN TrimHashtags(ThreadOrTruncate(platform, content, config), config.hashtag_limit)

(***************************************************************************)
(* save_post of the command line                                           *)
(***************************************************************************)

\* The files save_post writes: for "x" one file per segment of the content
\* split on the separator, holding the segment stripped; else one file.
SavedFiles(content, platform) ==
  IF platform = "x"
  THEN LET segs == SplitOn(content, THREAD_SEPARATOR)
       IN [i \in 1..Len(segs) |->
             [name |-> <<"x_tweet_", i>>, text |-> Strip(segs[i])]]
  ELSE << [name |-> <<platform>>, text |-> content] >>

(***************************************************************************)
(* State                                                                   *)
(***************************************************************************)

VARIABLES
  state,     \* the AgentState of the run
  stage,     \* the node of the graph to run next, "END" after the last, "raised"
  tweets,    \* the list _split_into_thread returned to _validate_post
  files,     \* the files save_post has written
  post,      \* what generate_post returned, None before it returns
  executed,  \* history: the nodes of the graph the run has entered, in order
  llm_calls, \* history: the chat completions the run has requested
  run_start  \* history: the cache and the research calls when the run began

pipelineVars == <<state, stage, tweets, files, post, executed, llm_calls,
                  run_start>>

VARIABLES
  cache,           \* self.cache: the dict from the topics stored to their entries
  cache_duration,  \* self.cache_duration, in hours
  now,             \* datetime.now(), in hours
  op,              \* the call that returned last, with its arguments
  ret,             \* what that call returned
  lastSet          \* history: per topic, the latest set not followed by clear

VARIABLES
  tpc,   \* per thread that calls the cache: the statement it stands at
  tl,    \* per thread: the locals of the call it is in
  terr   \* per thread: the exception its call raised, "none" if none

threadVars == <<tpc, tl, terr>>

cacheVars == <<cache, cache_duration, now, op, ret, lastSet, threadVars>>

VARIABLES
  rpc,       \* "idle", or "running" while agent.invoke runs
  call,      \* the arguments of the research_topic call in progress, and
             \* (history) the cache as the call found it
  ncalls,    \* how many research_topic calls have been made
  finished,  \* the research_topic call that returned last
  done,      \* history: per topic, the call that returned last
  prev,      \* history: the call on finished's topic that returned before it
  failure    \* history: where the last exception was raised, "none" before any

researchVars == <<rpc, call, ncalls, finished, done, prev, failure>>

VARIABLES
  spc,             \* where search is: "idle", "call", "ddg", "returned", "after", "done"
  query,           \* the query search was called with
  cur_query,       \* the query of the pass: query, then the simplified query
  pass,            \* 1 for the first loop over the engines, 2 for the second
  engine,          \* the index in self.search_engines of the engine in turn
  engine_results,  \* what the engine just called returned
  all_results,     \* the results accumulated
  retry_count,     \* retry_count of _search_duckduckgo
  attempts,        \* history: iterations of the loop of _search_duckduckgo
  search_ret,      \* what search returned
  provider_calls   \* history: the engine calls of the search that have ended

VARIABLES
  scpc,       \* where search_and_scrape is: "idle", "scrape", "process", "done"
  ridx,       \* the index in results of the result in turn
  scrape_ret, \* what scrape_content returned for the result in turn
  scraped,    \* history: per result scraped, what its tiers did and gave
  documents   \* the documents collected

VARIABLES
  cpc,        \* main of the command line: "idle", "generate", "save", "done"
  platforms,  \* args.platforms
  cidx,       \* the place in args.platforms of the loop of main
  to_write,   \* the files save_post is to write for the post returned
  widx,       \* the place in to_write of the file save_post writes next
  attempted,  \* history: the generate_post calls of main that have ended
  reported,   \* history: the errors printed, each with its place in the list
  written     \* history: the files written, each with its place in the list

cliVars == <<cpc, platforms, cidx, to_write, widx, attempted, reported, written>>

scrapeVars == <<scpc, ridx, scrape_ret, scraped, documents, cliVars>>

searchVars == <<spc, query, cur_query, pass, engine, engine_results, all_results,
                retry_count, attempts, search_ret, provider_calls, scrapeVars>>

vars == <<pipelineVars, cacheVars, researchVars, searchVars>>

\* Python's None.
None == [none |-> TRUE]

\* The nodes of the graph in the order of its edges, from the entry point to
\* the finish point.
STAGES == <<"research_topic", "generate_content", "format_post", "validate_post">>

\* set_entry_point and set_finish_point.
ENTRY_POINT == "research_topic"
FINISH_POINT == "validate_post"

\* A graph whose edge from generate_content skips format_post.
NextNodeSkipping(node) ==
  IF node = FINISH_POINT THEN "END"
  ELSE IF node = "research_topic" THEN "generate_content"
  ELSE "validate_post"

\* The node the compiled graph runs after node: the target of its edge, and
\* the end of the run after the finish point.
NextNode(node) ==
  IF node = FINISH_POINT THEN "END"
  ELSE IF node = "research_topic" THEN "generate_content"
  ELSE IF node = "generate_content" THEN "format_post"
  ELSE "validate_post"

\* A graph that goes on to the next node when a node raises.
OnExceptionGoesOn(node) == NextNode(node)

\* Where the run is when node raises: no node and no edge of the graph
\* catches, the exception leaves the run.
OnException(node) == "raised"

\* The nodes a run has left when it stands at node.
StagesBefore(node) ==
  IF \E i \in 1..Len(STAGES) : STAGES[i] = node
  THEN SubSeq(STAGES, 1, (CHOOSE i \in 1..Len(STAGES) : STAGES[i] = node) - 1)
  ELSE <<>>

\* The pipeline at a node of the graph with the given AgentState, nothing
\* split or saved yet; "idle" with no state when no run is in progress.
PipelineAt(node, agent_state) ==
  /\ stage = node
  /\ state = agent_state
  /\ tweets = <<>>
  /\ files = <<>>
  /\ post = None
  /\ executed = StagesBefore(node)
  /\ llm_calls = 0
  /\ run_start = None

\* The threads that call one cache.
Threads == {1, 2}

\* ResearchCache(cache_duration): an empty dict.
NewCache(duration) ==
  /\ tpc = [t \in Threads |-> "idle"]
  /\ tl = [t \in Threads |-> None]
  /\ terr = [t \in Threads |-> "none"]
  /\ cache = <<>>
  /\ cache_duration = duration
  /\ now = 0
  /\ op = [name |-> "init"]
  /\ ret = None
  /\ lastSet = <<>>

\* A ResearcherAgent that has made the given number of calls and runs none.
ResearcherAfter(calls) ==
  /\ rpc = "idle"
  /\ call = None
  /\ ncalls = calls
  /\ finished = None
  /\ done = <<>>
  /\ prev = None
  /\ failure = "none"

\* The command line before main runs.
CliIdle ==
  /\ cpc = "idle"
  /\ platforms = <<>>
  /\ cidx = 0
  /\ to_write = <<>>
  /\ widx = 0
  /\ attempted = <<>>
  /\ reported = {}
  /\ written = <<>>

\* search_and_scrape at the given place of its loop, no result scraped yet.
ScrapeAt(place) ==
  /\ CliIdle
  /\ scpc = place
  /\ ridx = IF place = "idle" THEN 0 ELSE 1
  /\ scrape_ret = None
  /\ scraped = <<>>
  /\ documents = <<>>

\* A WebSearchTool whose search is at the given place with nothing found.
SearchAt(place) ==
  /\ ScrapeAt("idle")
  /\ spc = place
  /\ query = <<>>
  /\ cur_query = <<>>
  /\ pass = 0
  /\ engine = 0
  /\ engine_results = <<>>
  /\ all_results = <<>>
  /\ retry_count = 0
  /\ attempts = 0
  /\ search_ret = None
  /\ provider_calls = <<>>

(***************************************************************************)
(* Formatted contents to validate                                          *)
(***************************************************************************)

\* The most sentences of a content for platform "x".
MaxSentences == 3

\* The most hashtags of a content for platform "x".
MaxTags == 6

\* A sentence of n characters: a word and a full stop.
Sentence(n) == Rep("a", n - 1) \o <<".">>

\* The k-th hashtag: "#a", "#b", ...
Tag(k) == <<"#", <<"a", "b", "c", "d", "e", "f", "g", "h">>[k]>>

\* n hashtags joined by single spaces.
Tags(n) == JoinWith([k \in 1..n |-> Tag(((k - 1) % 8) + 1)], <<" ">>)

\* Sentence lengths around the tweet limit: with the 8 characters of the
\* marker and a counter, or with 6 more characters of two hashtags.
SentenceLengths ==
  {2, MAX_TWEET_LENGTH \div 2, MAX_TWEET_LENGTH - 14, MAX_TWEET_LENGTH - 8,
   MAX_TWEET_LENGTH, MAX_TWEET_LENGTH + 1}

\* A content for the thread splitter: sentences of the given lengths, then a
\* blank line and the hashtags (as format_post lays them out) or, with
\* inline, the hashtags after the first sentence.
ThreadContent(lens, ntags, inline) ==
  LET sents == [k \in 1..Len(lens) |-> Sentence(lens[k])]
  IN IF ntags = 0 THEN JoinWith(sents, <<" ">>)
     ELSE IF lens = <<>> THEN Tags(ntags)
     ELSE IF inline
     THEN JoinWith(<<sents[1], Tags(ntags)>> \o Tail(sents), <<" ">>)
     ELSE JoinWith(sents, <<" ">>) \o <<"\n", "\n">> \o Tags(ntags)

\* The hashtag layouts: none, two at the end, two inline, MaxTags at the end.
TagLayouts ==
  { <<0, FALSE>>, <<2, FALSE>>, <<2, TRUE>>, <<MaxTags, FALSE>> }

\* One sentence, then a blank line and three hashtags of which the first and
\* the last are the same.
RepeatedTagContents ==
  { Sentence(len) \o <<"\n", "\n">> \o JoinWith(<<Tag(1), Tag(2), Tag(1)>>, <<" ">>) :
      len \in SentenceLengths }

ThreadContents ==
  { ThreadContent(lens, layout[1], layout[2]) :
      lens \in UNION { [1..n -> SentenceLengths] : n \in 0..MaxSentences },
      layout \in TagLayouts }
    \cup RepeatedTagContents

\* A content of exactly total characters: lead hashtags, a word that fills
\* the rest, a blank line, tail hashtags and, with word, a last plain word.
LongContent(total, lead, tail, word) ==
  LET head == IF lead = 0 THEN <<>> ELSE Tags(lead) \o <<" ">>
      foot == (IF tail = 0 THEN <<>> ELSE <<"\n", "\n">> \o Tags(tail))
                \o (IF word THEN <<" ", "w">> ELSE <<>>)
  IN head \o Rep("a", total - Len(head) - Len(foot)) \o foot

\* Contents around the platform's length and hashtag limits.
LongContents(platform) ==
  LET config == GetPlatformConfig(platform)
      L == config.hashtag_limit
  IN { LongContent(config.max_length + off, lead, tail, word) :
         off \in {-100, 0, 1, 100},
         lead \in {0, 1, L + 1},
         tail \in {0, L, L + 1},
         word \in BOOLEAN }

\* The formatted contents given to _validate_post for a platform name.
FormattedContents(platform) ==
  IF platform = "x" THEN ThreadContents
  ELSE IF IsSupported(platform) THEN LongContents(platform)
  ELSE { Sentence(2) }

(***************************************************************************)
(* The validate_post node and save_post                                    *)
(***************************************************************************)

\* The state at the validate_post node: formatted_content is set.
InitValidate ==
  /\ \E platform \in PlatformNames :
       \E content \in FormattedContents(platform) :
         PipelineAt("validate_post",
                    [platform |-> platform, formatted_content |-> content,
                     final_content |-> <<>>])
  /\ NewCache(1)
  /\ ResearcherAfter(0)
  /\ SearchAt("idle")

\* _validate_post(state): raises for a platform that is not supported.
ValidatePost ==
  /\ stage = "validate_post"
  /\ IF IsSupported(state.platform)
     THEN /\ state' = [state EXCEPT !.final_content =
                         ValidatedContent(state.platform, state.formatted_content)]
          /\ tweets' = IF state.platform = "x"
                       THEN SplitIntoThread(state.formatted_content)
                       ELSE <<>>
          /\ stage' = NextNode("validate_post")
     ELSE /\ stage' = OnException("validate_post")
          /\ UNCHANGED <<state, tweets>>
  /\ executed' = Append(executed, "validate_post")
  /\ UNCHANGED <<files, post, llm_calls, run_start>>
  /\ UNCHANGED <<cacheVars, researchVars, searchVars>>

\* save_post(post, title, platform) on the post the run returned.
SavePost ==
  /\ stage = "END"
  /\ files' = SavedFiles(state.final_content, state.platform)
  /\ stage' = "saved"
  /\ UNCHANGED <<state, tweets, post, executed, llm_calls, run_start>>
  /\ UNCHANGED <<cacheVars, researchVars, searchVars>>

NextValidate == ValidatePost \/ SavePost



(***************************************************************************)
(* Properties of the thread splitter and the validator                     *)
(***************************************************************************)

\* The run has left _validate_post.
Validated == stage \in {"END", "saved"}

\* Whether sub occurs in s.
Contains(s, sub) ==
  \E i \in 1..(Len(s) - Len(sub) + 1) :
    \A k \in 1..Len(sub) : s[i + k - 1] = sub[k]

\* Whether s ends with suffix.
EndsWith(s, suffix) ==
  /\ Len(suffix) <= Len(s)
  /\ SubSeq(s, Len(s) - Len(suffix) + 1, Len(s)) = suffix

\* The text " (i/n)".
ExpectedCounter(i, n) ==
  <<" ", "(">> \o ToDigits(i) \o <<"/">> \o ToDigits(n) \o <<")">>

\* A tweet up to and including its first ")": the contents of the model hold
\* no parenthesis, so this is the tweet with its counter and without any
\* hashtags appended after it.
Stem(t) ==
  LET closes == {k \in 1..Len(t) : t[k] = ")"}
  IN IF closes = {} THEN t ELSE SubSeq(t, 1, MinOf(closes))

\* The sentences the splitter packs.
SentencesOf(content) == SplitSentences(StrippedBody(content))

\* C1: when no sentence of the content is longer than 280 characters, every
\* tweet _split_into_thread returns is at most 280 characters long, counting
\* the thread-start glyph, the counter and any hashtags appended to it.
C1_TweetsWithinLimit ==
  (Validated /\ state.platform = "x"
     /\ \A k \in 1..Len(SentencesOf(state.formatted_content)) :
          Len(SentencesOf(state.formatted_content)[k]) <= MAX_TWEET_LENGTH)
  => \A i \in 1..Len(tweets) : Len(tweets[i]) <= MAX_TWEET_LENGTH

\* C8: in a thread of N tweets the tweet at position i carries the counter
\* "(i/N)", N being the length of the returned list, and the first tweet, and
\* only the first, carries the thread-start glyph, right before its counter.
C8_CounterConsistency ==
  (Validated /\ state.platform = "x")
  => \A i \in 1..Len(tweets) :
       LET stem == Stem(tweets[i])
           counter == ExpectedCounter(i, Len(tweets))
       IN /\ Cardinality({k \in 1..Len(tweets[i]) : tweets[i][k] = "("}) = 1
          /\ EndsWith(stem, counter)
          /\ (i = 1) <=> EndsWith(stem, <<" ", THREAD_MARKER>> \o counter)
          /\ (i = 1) <=> (\E k \in 1..Len(tweets[i]) : tweets[i][k] = THREAD_MARKER)

\* C8's case: a thread of three tweets.
C8_Witness ==
  Validated /\ state.platform = "x" /\ Len(tweets) = 3

\* C9: the hashtags are reattached all or none, and to the last tweet only:
\* when the last tweet with its counter plus " " and the space-joined
\* hashtags is at most 280 characters, the last tweet is that text; otherwise
\* it is the tweet with its counter alone; no other tweet, and no tweet
\* before the hashtags are appended, holds an extracted hashtag.
C9_HashtagReattachment ==
  (Validated /\ state.platform = "x" /\ tweets # <<>>)
  => LET hashtags == FindHashtags(state.formatted_content)
         n == Len(tweets)
         stem == Stem(tweets[n])
         text == <<" ">> \o JoinWith(hashtags, <<" ">>)
     IN /\ \A i \in 1..(n - 1) : \A k \in 1..Len(hashtags) :
             ~Contains(tweets[i], hashtags[k])
        /\ \A k \in 1..Len(hashtags) : ~Contains(stem, hashtags[k])
        /\ IF hashtags # <<>> /\ Len(stem) + Len(text) <= MAX_TWEET_LENGTH
           THEN tweets[n] = stem \o text
           ELSE tweets[n] = stem

\* C9's case: a thread of several tweets whose last tweet has the hashtags
\* appended after its counter.
C9_Witness ==
  /\ Validated /\ state.platform = "x" /\ Len(tweets) >= 2
  /\ FindHashtags(state.formatted_content) # <<>>
  /\ Len(tweets[Len(tweets)]) > Len(Stem(tweets[Len(tweets)]))
  /\ EndsWith(tweets[Len(tweets)], <<" ", "#", "a", " ", "#", "b">>)

\* C6 as stated: for a platform other than "x", a content longer than
\* max_length gives a final_content of exactly max_length characters that
\* ends in "..." and starts with the first max_length - 3 characters of the
\* content.
C6_TruncationAsStated ==
  (Validated /\ state.platform # "x"
     /\ Len(state.formatted_content) > GetPlatformConfig(state.platform).max_length)
  => LET m == GetPlatformConfig(state.platform).max_length
     IN /\ Len(state.final_content) = m
        /\ EndsWith(state.final_content, <<".", ".", ".">>)
        /\ SubSeq(state.final_content, 1, m - 3)
             = SubSeq(state.formatted_content, 1, m - 3)

\* C6, amended: the same, when the truncated text (the first max_length - 3
\* characters and "...") holds at most hashtag_limit whitespace-delimited
\* tokens that start with "#".
C6_Truncation ==
  (Validated /\ state.platform # "x"
     /\ Len(state.formatted_content) > GetPlatformConfig(state.platform).max_length
     /\ HashtagCount(SubSeq(state.formatted_content, 1,
                            GetPlatformConfig(state.platform).max_length - 3)
                       \o <<".", ".", ".">>)
          <= GetPlatformConfig(state.platform).hashtag_limit)
  => LET m == GetPlatformConfig(state.platform).max_length
     IN /\ Len(state.final_content) = m
        /\ EndsWith(state.final_content, <<".", ".", ".">>)
        /\ SubSeq(state.final_content, 1, m - 3)
             = SubSeq(state.formatted_content, 1, m - 3)

\* C6's case: a content of 3100 characters for a platform whose max_length
\* is 3000 has been cut to 3000 characters.
C6_Witness ==
  /\ Validated /\ state.platform = "linkedin"
  /\ Len(state.formatted_content) = 3100
  /\ Len(state.final_content) = 3000
  /\ EndsWith(state.final_content, <<".", ".", ".">>)

\* C7: after validate_post the number of whitespace-delimited tokens of
\* final_content that start with "#" is at most the platform's hashtag_limit.
C7_HashtagLimitMet ==
  (Validated /\ IsSupported(state.platform))
  => HashtagCount(state.final_content)
       <= GetPlatformConfig(state.platform).hashtag_limit

\* C10: for platform "x" final_content is the splitter's tweets joined by the
\* separator, and splitting it on the separator, as save_post does, gives
\* the splitter's tweets: as many segments, in the same order, the same text.
C10_ResplitGivesTweets ==
  (Validated /\ state.platform = "x")
  => /\ state.final_content = JoinWith(tweets, THREAD_SEPARATOR)
     /\ SplitOn(state.final_content, THREAD_SEPARATOR) = tweets
     /\ (stage = "saved" =>
           /\ Len(files) = Len(tweets)
           /\ \A i \in 1..Len(files) : files[i].text = tweets[i])


(***************************************************************************)
(* The research cache: ResearchCache                                       *)
(***************************************************************************)

\* The topics callers ask about.
Topics == {"ai", "space"}

\* The longest cache duration and the last instant of the clock.
MaxDuration == 2
MaxTime == 5

\* The dict d with key bound to value, and d without key.
DictSet(d, key, value) ==
  [k \in DOMAIN d \cup {key} |-> IF k = key THEN value ELSE d[k]]

DictDel(d, key) == [k \in DOMAIN d \ {key} |-> d[k]]

\* A slip in the comparison: <= for <.
IsFreshInclusive(entry, t, duration) == t - entry.timestamp <= duration

\* datetime.now() - entry["timestamp"] < self.cache_duration
IsFresh(entry, t, duration) == t - entry.timestamp < duration

\* What get(topic) returns at time t.
GetReturn(c, topic, t, duration) ==
  IF topic \in DOMAIN c /\ IsFresh(c[topic], t, duration)
  THEN c[topic].data
  ELSE None

\* A get that leaves an expired entry in the dict.
CacheAfterGetKeeping(c, topic, t, duration) == c

\* The dict after get(topic) at time t: an expired entry is deleted.
CacheAfterGet(c, topic, t, duration) ==
  IF topic \in DOMAIN c /\ ~IsFresh(c[topic], t, duration)
  THEN DictDel(c, topic)
  ELSE c

\* A slip in set: the entry is not stored.
CacheAfterSetDropped(c, topic, data, t) == c

\* A set that keeps the timestamp of an entry it overwrites.
CacheAfterSetKeepingAge(c, topic, data, t) ==
  DictSet(c, topic, [data |-> data,
                     timestamp |-> IF topic \in DOMAIN c THEN c[topic].timestamp
                                   ELSE t])

\* The dict after set(topic, data) at time t.
CacheAfterSet(c, topic, data, t) ==
  DictSet(c, topic, [data |-> data, timestamp |-> t])

\* A remove_expired that keeps an entry whose age is the duration exactly.
CacheAfterRemoveOlder(c, t, duration) ==
  LET expired_topics == {topic \in DOMAIN c : t - c[topic].timestamp > duration}
  IN [topic \in DOMAIN c \ expired_topics |-> c[topic]]

\* The dict after remove_expired() at time t.
CacheAfterRemoveExpired(c, t, duration) ==
  LET expired_topics == {topic \in DOMAIN c : t - c[topic].timestamp >= duration}
  IN [topic \in DOMAIN c \ expired_topics |-> c[topic]]

\* The data callers of the cache store.
CacheData == {[summary |-> "s1"], [summary |-> "s2"]}

\* ResearchCache(cache_duration): an empty dict.
InitCache ==
  /\ \E duration \in 1..MaxDuration : NewCache(duration)
  /\ PipelineAt("idle", None)
  /\ ResearcherAfter(0)
  /\ SearchAt("idle")

\* Time passes.
Tick ==
  /\ now < MaxTime
  /\ now' = now + 1
  /\ UNCHANGED <<cache, cache_duration, op, ret, lastSet, threadVars>>
  /\ UNCHANGED <<pipelineVars, researchVars, searchVars>>

\* cache.get(topic)
CacheGet ==
  \E topic \in Topics :
    /\ ret' = GetReturn(cache, topic, now, cache_duration)
    /\ cache' = CacheAfterGet(cache, topic, now, cache_duration)
    /\ op' = [name |-> "get", topic |-> topic, time |-> now]
    /\ UNCHANGED <<cache_duration, now, lastSet, threadVars>>
    /\ UNCHANGED <<pipelineVars, researchVars, searchVars>>

\* cache.set(topic, data)
CacheSet ==
  \E topic \in Topics, data \in CacheData :
    /\ cache' = CacheAfterSet(cache, topic, data, now)
    /\ lastSet' = DictSet(lastSet, topic, [data |-> data, time |-> now])
    /\ op' = [name |-> "set", topic |-> topic, time |-> now]
    /\ ret' = None
    /\ UNCHANGED <<cache_duration, now, threadVars>>
    /\ UNCHANGED <<pipelineVars, researchVars, searchVars>>

\* cache.clear()
CacheClear ==
  /\ cache' = <<>>
  /\ lastSet' = <<>>
  /\ op' = [name |-> "clear", time |-> now]
  /\ ret' = None
  /\ UNCHANGED <<cache_duration, now, threadVars>>
  /\ UNCHANGED <<pipelineVars, researchVars, searchVars>>

\* cache.remove_expired()
CacheRemoveExpired ==
  /\ cache' = CacheAfterRemoveExpired(cache, now, cache_duration)
  /\ op' = [name |-> "remove_expired", time |-> now]
  /\ ret' = None
  /\ UNCHANGED <<cache_duration, now, lastSet, threadVars>>
  /\ UNCHANGED <<pipelineVars, researchVars, searchVars>>

NextCache == Tick \/ CacheGet \/ CacheSet \/ CacheClear \/ CacheRemoveExpired

(***************************************************************************)
(* The cache called by concurrent threads: a thread may be switched out    *)
(* between any two statements of get and of remove_expired; the one        *)
(* statement of set and of clear is a single operation on the dict.        *)
(***************************************************************************)

\* Thread t moves to the statement pc with the locals given; a call that
\* returned or raised leaves t free for its next call.
Goes(t, pc, locals) ==
  /\ tpc' = [tpc EXCEPT ![t] = pc]
  /\ tl' = [tl EXCEPT ![t] = locals]

\* Thread t's call ends with the exception named.
Fails(t, error) ==
  /\ Goes(t, "idle", None)
  /\ terr' = [terr EXCEPT ![t] = error]

\* ResearchCache(cache_duration) shared by the threads.
InitThreads ==
  /\ \E duration \in 1..MaxDuration : NewCache(duration)
  /\ PipelineAt("idle", None)
  /\ ResearcherAfter(0)
  /\ SearchAt("idle")

\* get, line 72: if topic in self.cache, else return None.
GetTest ==
  \E t \in Threads, topic \in Topics :
    /\ tpc[t] = "idle"
    /\ terr[t] = "none"
    /\ IF topic \in DOMAIN cache
       THEN Goes(t, "get_entry", [topic |-> topic])
       ELSE Goes(t, "idle", None)
    /\ UNCHANGED <<terr, cache, cache_duration, now, op, ret, lastSet>>
    /\ UNCHANGED <<pipelineVars, researchVars, searchVars>>

\* get, line 73: entry = self.cache[topic]; KeyError when the key is gone.
GetEntry ==
  \E t \in Threads :
    /\ tpc[t] = "get_entry"
    /\ IF tl[t].topic \in DOMAIN cache
       THEN /\ Goes(t, "get_compare",
                    [topic |-> tl[t].topic, entry |-> cache[tl[t].topic]])
            /\ UNCHANGED terr
       ELSE Fails(t, "KeyError")
    /\ UNCHANGED <<cache, cache_duration, now, op, ret, lastSet>>
    /\ UNCHANGED <<pipelineVars, researchVars, searchVars>>

\* get, lines 75-76: the entry is returned when it has not expired.
GetCompare ==
  \E t \in Threads :
    /\ tpc[t] = "get_compare"
    /\ IF IsFresh(tl[t].entry, now, cache_duration)
       THEN Goes(t, "idle", None)
       ELSE Goes(t, "get_del", [topic |-> tl[t].topic])
    /\ UNCHANGED <<terr, cache, cache_duration, now, op, ret, lastSet>>
    /\ UNCHANGED <<pipelineVars, researchVars, searchVars>>

\* get, lines 79-80: del self.cache[topic]; KeyError when the key is gone.
GetDel ==
  \E t \in Threads :
    /\ tpc[t] = "get_del"
    /\ IF tl[t].topic \in DOMAIN cache
       THEN /\ cache' = DictDel(cache, tl[t].topic)
            /\ Goes(t, "idle", None)
            /\ UNCHANGED terr
       ELSE /\ Fails(t, "KeyError")
            /\ UNCHANGED cache
    /\ UNCHANGED <<cache_duration, now, op, ret, lastSet>>
    /\ UNCHANGED <<pipelineVars, researchVars, searchVars>>

\* set, line 93, by a thread.
ThreadSet ==
  \E t \in Threads, topic \in Topics, data \in CacheData :
    /\ tpc[t] = "idle"
    /\ terr[t] = "none"
    /\ cache' = CacheAfterSet(cache, topic, data, now)
    /\ UNCHANGED <<threadVars, cache_duration, now, op, ret, lastSet>>
    /\ UNCHANGED <<pipelineVars, researchVars, searchVars>>

\* clear, line 102, by a thread.
ThreadClear ==
  \E t \in Threads :
    /\ tpc[t] = "idle"
    /\ terr[t] = "none"
    /\ cache' = <<>>
    /\ UNCHANGED <<threadVars, cache_duration, now, op, ret, lastSet>>
    /\ UNCHANGED <<pipelineVars, researchVars, searchVars>>

\* remove_expired, lines 112-116: current_time is read and the iteration
\* over self.cache.items() begins; the iterator remembers the dict's size.
RemoveBegin ==
  \E t \in Threads :
    /\ tpc[t] = "idle"
    /\ terr[t] = "none"
    /\ Goes(t, "scan", [current_time |-> now, size |-> Cardinality(DOMAIN cache),
                        todo |-> DOMAIN cache, expired_topics |-> {}])
    /\ UNCHANGED <<terr, cache, cache_duration, now, op, ret, lastSet>>
    /\ UNCHANGED <<pipelineVars, researchVars, searchVars>>

\* remove_expired, lines 114-118: one step of the iteration. RuntimeError
\* (dictionary changed size during iteration) when the size is another; else
\* the next item that is still there is tested, and the list is complete
\* when none is left.
ScanNext ==
  \E t \in Threads :
    /\ tpc[t] = "scan"
    /\ IF Cardinality(DOMAIN cache) # tl[t].size
       THEN Fails(t, "RuntimeError")
       ELSE /\ UNCHANGED terr
            /\ IF tl[t].todo \cap DOMAIN cache = {}
               THEN Goes(t, "remove_del",
                         [expired_topics |-> tl[t].expired_topics])
               ELSE \E topic \in tl[t].todo \cap DOMAIN cache :
                      Goes(t, "scan",
                           [tl[t] EXCEPT
                              !.todo = @ \ {topic},
                              !.expired_topics =
                                IF tl[t].current_time - cache[topic].timestamp
                                     >= cache_duration
                                THEN @ \cup {topic} ELSE @])
    /\ UNCHANGED <<cache, cache_duration, now, op, ret, lastSet>>
    /\ UNCHANGED <<pipelineVars, researchVars, searchVars>>

\* remove_expired, lines 120-121: del self.cache[topic] for the next topic
\* of the list; KeyError when the key is gone; the call returns after the
\* last.
RemoveDel ==
  \E t \in Threads :
    /\ tpc[t] = "remove_del"
    /\ IF tl[t].expired_topics = {}
       THEN /\ Goes(t, "idle", None)
            /\ UNCHANGED <<terr, cache>>
       ELSE \E topic \in tl[t].expired_topics :
              IF topic \in DOMAIN cache
              THEN /\ cache' = DictDel(cache, topic)
                   /\ Goes(t, "remove_del",
                           [expired_topics |-> tl[t].expired_topics \ {topic}])
                   /\ UNCHANGED terr
              ELSE /\ Fails(t, "KeyError")
                   /\ UNCHANGED cache
    /\ UNCHANGED <<cache_duration, now, op, ret, lastSet>>
    /\ UNCHANGED <<pipelineVars, researchVars, searchVars>>

\* The calls of the threads, interleaved, as time passes.
NextThreads ==
  Tick \/ GetTest \/ GetEntry \/ GetCompare \/ GetDel \/ ThreadSet \/ ThreadClear
    \/ RemoveBegin \/ ScanNext \/ RemoveDel



(***************************************************************************)
(* The researcher: ResearcherAgent.research_topic                          *)
(***************************************************************************)

\* The most research_topic calls of a run.
MaxCalls == 2

\* The focus_areas callers pass: none, or the list _research_topic passes.
FocusChoices ==
  { <<>>,
    <<"current developments", "key statistics", "relevant context",
      "social media angles">> }

\* A key that tells a call with focus areas from a call without.
CacheKeyByFocus(topic, focus_areas) ==
  IF focus_areas = <<>> THEN topic
  ELSE IF topic = "ai" THEN "ai focusing on" ELSE "space focusing on"

\* The key of self.cache.get(topic) and self.cache.set(topic, ...): the topic
\* as it was passed.
CacheKey(topic, focus_areas) == topic

\* The query research_topic builds.
BuildQuery(topic, focus_areas) ==
  <<"Research about ", topic>>
    \o (IF focus_areas # <<>>
        THEN <<" focusing on: ">> \o JoinWith([k \in 1..Len(focus_areas) |->
                                                <<focus_areas[k]>>], <<", ">>)
        ELSE <<>>)

\* The texts the tool loop may produce, as their lines (text.split("\n")).
ResearchOutputs ==
  { <<"AI is growing.">>,
    <<"AI is growing.", "", "- fact one", "Trend: up", "Source: web", "more prose">> }

\* line.lower().startswith(("key fact", "fact:", bullet, "-")), on the lines above.
IsFactLine(line) == line \in {"- fact one"}

\* line.lower().startswith(("trend:", "current trend", "developing:"))
IsTrendLine(line) == line \in {"Trend: up"}

\* line.lower().startswith(("source:", "reference:", "from:", "via:"))
IsSourceLine(line) == line \in {"Source: web"}

\* _extract_summary: the text before the first "\n\n", or the whole text.
ExtractSummary(lines) ==
  LET blanks == {i \in 2..(Len(lines) - 1) : lines[i] = ""}
  IN IF blanks = {} THEN lines ELSE SubSeq(lines, 1, MinOf(blanks) - 1)

\* _extract_key_facts
ExtractKeyFacts(lines) ==
  LET facts == SelectSeq(lines, IsFactLine)
  IN IF facts = <<>> THEN <<"No key facts found.">> ELSE facts

\* _extract_trends
ExtractTrends(lines) ==
  LET trends == SelectSeq(lines, IsTrendLine)
  IN IF trends = <<>> THEN <<"No trends found.">> ELSE trends

\* _extract_sources
ExtractSources(lines) ==
  LET sources == SelectSeq(lines, IsSourceLine)
  IN IF sources = <<>> THEN <<"No sources found.">> ELSE sources

\* structured_output
StructuredOutput(lines) ==
  [summary |-> ExtractSummary(lines), key_facts |-> ExtractKeyFacts(lines),
   trends |-> ExtractTrends(lines), sources |-> ExtractSources(lines)]

\* The default structure the except branch returns.
Fallback(topic) ==
  [summary |-> <<"Unable to research topic '", topic,
                 "' at this time. Please try again later.">>,
   key_facts |-> <<"No key facts available.">>,
   trends |-> <<"No trends available.">>,
   sources |-> <<"No sources available.">>]

\* ResearcherAgent(cache_duration=...): an empty cache, no call made.
InitResearch ==
  /\ \E duration \in 1..MaxDuration : NewCache(duration)
  /\ ResearcherAfter(0)
  /\ PipelineAt("idle", None)
  /\ SearchAt("idle")

\* The bookkeeping of a call that returns r at the current time.
Returns(topic, focus_areas, start, r, invoked, failed) ==
  LET this == [topic |-> topic, focus_areas |-> focus_areas, start |-> start,
               end |-> now, ret |-> r, invoked |-> invoked, failed |-> failed]
  IN /\ finished' = this
     /\ prev' = IF topic \in DOMAIN done THEN done[topic] ELSE None
     /\ done' = DictSet(done, topic,
                        [focus_areas |-> focus_areas, end |-> now, ret |-> r,
                         invoked |-> invoked, failed |-> failed])

\* research_topic(topic, focus_areas) up to agent.invoke: a cache hit returns.
ResearchTopic ==
  \E topic \in Topics, focus_areas \in FocusChoices :
    LET key == CacheKey(topic, focus_areas)
        cached_results == GetReturn(cache, key, now, cache_duration)
    IN /\ rpc = "idle"
       /\ ncalls < MaxCalls
       /\ ncalls' = ncalls + 1
       /\ cache' = CacheAfterGet(cache, key, now, cache_duration)
       /\ IF cached_results # None
          THEN /\ Returns(topic, focus_areas, now, cached_results, FALSE, FALSE)
               /\ UNCHANGED <<rpc, call>>
          ELSE /\ rpc' = "running"
               /\ call' = [topic |-> topic, focus_areas |-> focus_areas,
                           start |-> now,
                           query |-> BuildQuery(topic, focus_areas),
                           cache_before |-> cache]
               /\ UNCHANGED <<finished, done, prev>>
       /\ UNCHANGED <<failure, cache_duration, now, op, ret, lastSet, threadVars>>
       /\ UNCHANGED <<pipelineVars, searchVars>>

\* agent.invoke returns: the output is structured, cached and returned.
AgentReturns ==
  \E research_output \in ResearchOutputs :
    LET structured_output == StructuredOutput(research_output)
    IN /\ rpc = "running"
       /\ cache' = CacheAfterSet(cache, CacheKey(call.topic, call.focus_areas),
                                 structured_output, now)
       /\ Returns(call.topic, call.focus_areas, call.start, structured_output,
                  TRUE, FALSE)
       /\ rpc' = "idle"
       /\ call' = None
       /\ UNCHANGED <<ncalls, failure, cache_duration, now, op, ret, lastSet,
                    threadVars>>
       /\ UNCHANGED <<pipelineVars, searchVars>>

\* Where an exception may be raised once the query is built: in agent.invoke,
\* in result["output"] (no such key), in an extractor (the output is no str).
FailurePoints == {"invoke", "output", "extract"}

\* A try block that holds agent.invoke alone.
InTryInvokeOnly(point) == point = "invoke"

\* The statements of the try block of research_topic.
InTry(point) == point \in {"invoke", "output", "extract", "cache_set"}

\* An except branch that stores the default structure it returns.
CacheAfterFailureStored(c, topic, fallback, t) ==
  CacheAfterSet(c, topic, fallback, t)

\* The cache after the except branch: it prints and returns, and calls no
\* operation of the cache.
CacheAfterFailure(c, topic, fallback, t) == c

\* An exception is raised at a failure point: the except branch returns the
\* default structure; outside the try block the exception reaches the caller.
AgentRaises ==
  \E point \in FailurePoints :
    /\ rpc = "running"
    /\ IF InTry(point)
       THEN /\ Returns(call.topic, call.focus_areas, call.start,
                       Fallback(call.topic), TRUE, TRUE)
            /\ cache' = CacheAfterFailure(cache,
                                          CacheKey(call.topic, call.focus_areas),
                                          Fallback(call.topic), now)
            /\ rpc' = "idle"
       ELSE /\ rpc' = "raised"
            /\ UNCHANGED <<finished, done, prev, cache>>
    /\ failure' = point
    /\ call' = None
    /\ UNCHANGED <<ncalls, cache_duration, now, op, ret, lastSet, threadVars>>
    /\ UNCHANGED <<pipelineVars, searchVars>>

\* The calls of a ResearcherAgent as time passes.
NextResearch == ResearchTopic \/ AgentReturns \/ AgentRaises \/ Tick


(***************************************************************************)
(* The pipeline: SocialMediaAgent.generate_post and the nodes of its graph *)
(***************************************************************************)

\* The tones a caller passes.
Tones == {"neutral", "casual"}

\* The keys of Prompts.SYSTEM_PROMPTS.
SystemPromptKeys == {"instagram", "linkedin", "facebook", "x"}

\* The research results research_topic may return.
ResearchResults ==
  { StructuredOutput(research_output) : research_output \in ResearchOutputs }
    \union { Fallback(topic) : topic \in Topics }

\* The analysis the model writes from the research results.
Analysis(research_results) == <<"Insights: ">> \o research_results.summary

\* The longest post the model writes.
MaxPostLength == 3001

\* The posts the model writes for a platform: a short one, and one of two
\* sentences for a thread or one character longer than the platform allows
\* (up to MaxPostLength).
GeneratedContents(platform) ==
  IF Lower(platform) = "x"
  THEN { Sentence(2), ThreadContent(<<MAX_TWEET_LENGTH - 8, 2>>, 0, FALSE) }
  ELSE { Sentence(2),
         LongContent(MinOf({GetPlatformConfig(platform).max_length + 1,
                            MaxPostLength}), 0, 0, FALSE) }

\* _generate_hashtags(content, limit): a list of at most limit hashtags.
GenerateHashtags(content, limit) ==
  { [k \in 1..n |-> Tag(((k - 1) % 8) + 1)] : n \in {1, limit} }

\* SocialMediaAgent(): a researcher with an empty cache, no run made.
InitPipeline ==
  /\ PipelineAt("idle", None)
  /\ NewCache(1)
  /\ ResearcherAfter(0)
  /\ SearchAt("idle")

\* generate_post(content, platform, tone): the graph is invoked on a state
\* made of the arguments, its content fields empty.
GeneratePost ==
  \E content \in Topics, platform \in PlatformNames, tone \in Tones :
    /\ stage \in {"idle", "returned", "raised"}
    /\ ncalls < MaxCalls
    /\ state' = [content |-> content, platform |-> platform, tone |-> tone,
                 researched_content |-> <<>>, generated_content |-> <<>>,
                 formatted_content |-> <<>>, final_content |-> <<>>]
    /\ stage' = ENTRY_POINT
    /\ executed' = <<>>
    /\ llm_calls' = 0
    /\ post' = None
    /\ tweets' = <<>>
    /\ run_start' = [cache |-> cache, ncalls |-> ncalls,
                     args |-> <<content, platform, tone>>]
    /\ UNCHANGED <<files, cacheVars, researchVars, searchVars>>

\* self.researcher.research_topic(topic, focus_areas) returning
\* research_results: from the cache, from the agent, or the default
\* structure when the agent fails.
Researched(topic, focus_areas, research_results) ==
  LET key == CacheKey(topic, focus_areas)
      cached_results == GetReturn(cache, key, now, cache_duration)
      after_get == CacheAfterGet(cache, key, now, cache_duration)
  IN /\ ncalls' = ncalls + 1
     /\ IF cached_results # None
        THEN /\ research_results = cached_results
             /\ cache' = after_get
             /\ Returns(topic, focus_areas, now, cached_results, FALSE, FALSE)
             /\ UNCHANGED failure
        ELSE \/ /\ \E research_output \in ResearchOutputs :
                     research_results = StructuredOutput(research_output)
                /\ cache' = CacheAfterSet(after_get, key, research_results, now)
                /\ Returns(topic, focus_areas, now, research_results, TRUE, FALSE)
                /\ UNCHANGED failure
             \/ /\ research_results = Fallback(topic)
                /\ \E point \in FailurePoints :
                     /\ InTry(point)
                     /\ failure' = point
                /\ cache' = CacheAfterFailure(after_get, key, research_results, now)
                /\ Returns(topic, focus_areas, now, research_results, TRUE, TRUE)
     /\ UNCHANGED <<rpc, call, cache_duration, now, op, ret, lastSet, threadVars>>

\* _research_topic(state): the research call, then the analysis by the
\* model; an error of the model's API leaves the graph.
ResearchStage ==
  \E research_results \in ResearchResults, answered \in BOOLEAN :
    /\ stage = "research_topic"
    /\ Researched(state.content,
                  <<"current developments", "key statistics", "relevant context",
                    "social media angles">>,
                  research_results)
    /\ llm_calls' = llm_calls + 1
    /\ IF answered
       THEN /\ state' = [state EXCEPT !.researched_content =
                           Analysis(research_results)]
            /\ stage' = NextNode("research_topic")
       ELSE /\ stage' = OnException("research_topic")
            /\ UNCHANGED state
    /\ executed' = Append(executed, "research_topic")
    /\ UNCHANGED <<tweets, files, post, run_start, searchVars>>

\* _generate_content(state): the prompt is looked up under the name as the
\* caller wrote it (KeyError); the draft, then the emoji pass on it.
GenerateContent ==
  /\ stage = "generate_content"
  /\ IF state.platform \notin SystemPromptKeys
     THEN /\ stage' = OnException("generate_content")
          /\ UNCHANGED <<state, llm_calls>>
     ELSE \E content \in GeneratedContents(state.platform), answers \in 0..2 :
            \* the requests the node makes when each is answered
            LET wanted == IF GetPlatformConfig(state.platform).emoji_support
                          THEN 2 ELSE 1
            IN /\ answers <= wanted
               /\ IF answers = wanted
                  THEN /\ llm_calls' = llm_calls + wanted
                       /\ state' = [state EXCEPT !.generated_content = content]
                       /\ stage' = NextNode("generate_content")
                  ELSE /\ llm_calls' = llm_calls + answers + 1
                       /\ stage' = OnException("generate_content")
                       /\ UNCHANGED state
  /\ executed' = Append(executed, "generate_content")
  /\ UNCHANGED <<tweets, files, post, run_start>>
  /\ UNCHANGED <<cacheVars, researchVars, searchVars>>

\* A formatting that puts the hashtags on the line of the content.
FormattedWithSameLine(content, hashtags) ==
  content \o <<" ">> \o JoinWith(hashtags, <<" ">>)

\* formatted_content += f"\n\n{' '.join(hashtags)}"
FormattedWith(content, hashtags) ==
  content \o <<"\n", "\n">> \o JoinWith(hashtags, <<" ">>)

\* The values _format_post may give formatted_content for a content and a
\* hashtag_limit: the content, with the hashtags when the limit is above 0.
FormattedContentsOf(content, hashtag_limit) ==
  IF hashtag_limit > 0
  THEN { FormattedWith(content, hashtags) :
           hashtags \in GenerateHashtags(content, hashtag_limit) }
  ELSE { content }

\* A _format_post that appends the hashtags to generated_content in place
\* before it copies it.
FormatPostInPlace ==
  /\ stage = "format_post"
  /\ IF IsSupported(state.platform)
     THEN LET config == GetPlatformConfig(state.platform)
              content == state.generated_content
          IN /\ \E formatted \in FormattedContentsOf(content, config.hashtag_limit) :
                  state' = [state EXCEPT !.generated_content = formatted,
                                         !.formatted_content = formatted]
             /\ stage' = NextNode("format_post")
     ELSE /\ stage' = OnException("format_post")
          /\ UNCHANGED state
  /\ executed' = Append(executed, "format_post")
  /\ UNCHANGED <<tweets, files, post, llm_calls, run_start>>
  /\ UNCHANGED <<cacheVars, researchVars, searchVars>>

\* _format_post(state): the hashtags after a blank line.
FormatPost ==
  /\ stage = "format_post"
  /\ IF IsSupported(state.platform)
     THEN LET config == GetPlatformConfig(state.platform)
              content == state.generated_content
          IN /\ \E formatted_content \in
                      FormattedContentsOf(content, config.hashtag_limit) :
                  state' = [state EXCEPT !.formatted_content = formatted_content]
             /\ stage' = NextNode("format_post")
     ELSE /\ stage' = OnException("format_post")
          /\ UNCHANGED state
  /\ executed' = Append(executed, "format_post")
  /\ UNCHANGED <<tweets, files, post, llm_calls, run_start>>
  /\ UNCHANGED <<cacheVars, researchVars, searchVars>>

\* A generate_post that returns the content as format_post left it.
ReturnFormatted ==
  /\ stage = "END"
  /\ post' = state.formatted_content
  /\ stage' = "returned"
  /\ UNCHANGED <<state, tweets, files, executed, llm_calls, run_start>>
  /\ UNCHANGED <<cacheVars, researchVars, searchVars>>

\* generate_post returns the final_content of the state the graph ended in.
ReturnPost ==
  /\ stage = "END"
  /\ post' = state.final_content
  /\ stage' = "returned"
  /\ UNCHANGED <<state, tweets, files, executed, llm_calls, run_start>>
  /\ UNCHANGED <<cacheVars, researchVars, searchVars>>

\* The runs of one SocialMediaAgent, one after the other.
NextPipeline ==
  GeneratePost \/ ResearchStage \/ GenerateContent \/ FormatPost \/ ValidatePost
    \/ ReturnPost


(***************************************************************************)
(* The search engine: WebSearchTool.search and _search_duckduckgo          *)
(***************************************************************************)

\* WebSearchTool(max_results=5), and max_retries of _search_duckduckgo.
max_results == 5
max_retries == 3

\* The most results a page of results holds, and the most iterations of the
\* retry loop the model follows.
MaxPageResults == 7
MaxAttempts == 5

\* self.search_engines
search_engines == <<"duckduckgo", "google", "bing">>

\* The queries: more than three tokens, and fewer.
Queries ==
  { <<"a", "i", " ", "i", "n", " ", " ", "e", "d", "u", " ", "n", "o", "w">>,
    <<"a", "i", " ", "n", "o", "w">> }

\* " ".join(query.split()[:3])
SimplifiedQuery(q) ==
  LET tokens == SplitWhitespace(q)
  IN JoinWith(SubSeq(tokens, 1, IF Len(tokens) < 3 THEN Len(tokens) ELSE 3), <<" ">>)

\* The greatest element of a sequence of naturals, 0 when it is empty.
MaxIn(ids) ==
  IF ids = <<>> THEN 0
  ELSE CHOOSE m \in {ids[i] : i \in 1..Len(ids)} : \A i \in 1..Len(ids) : ids[i] <= m

\* The pages of at most n raw results, up to the names of the links: each
\* result's link is one seen before on the page or the next new one; from
\* lowest = 0, a result may also lack its link or its title (0).
RECURSIVE LinkPatterns(_, _)
LinkPatterns(n, lowest) ==
  IF n = 0 THEN { <<>> }
  ELSE LET shorter == LinkPatterns(n - 1, lowest)
       IN shorter \cup UNION { { Append(ids, id) : id \in lowest..(MaxIn(ids) + 1) } :
                                 ids \in {p \in shorter : Len(p) = n - 1} }

\* The raw results of a page: the title tells the position on the page.
RawPage(ids) ==
  [i \in 1..Len(ids) |->
     IF ids[i] = 0
     THEN IF i % 2 = 1 THEN [title |-> "", link |-> "u0"]
                       ELSE [title |-> <<"title", i>>, link |-> ""]
     ELSE [title |-> <<"title", i>>, link |-> <<"u", ids[i]>>]]

\* if result["title"] and result["link"]: results.append(result)
KeepResult(r) == r.title # "" /\ r.link # ""

\* The results an attempt collects from a page of raw results.
Collected(raw) == SelectSeq(raw, KeepResult)

\* What ddgs.text(query, max_results=self.max_results) may return.
ApiPages == { RawPage(ids) : ids \in LinkPatterns(max_results, 0) }

\* What the HTML page of results may hold: the page is not cut to max_results.
HtmlPages == ApiPages \cup { RawPage(ids) : ids \in LinkPatterns(MaxPageResults, 1) }

\* _search_google and _search_bing: placeholders that return no result.
PlaceholderResults == <<>>

\* Without the test on seen_urls: every result is kept.
UniqueResultsUnfiltered(all) == all

\* The loop over all_results that keeps a result unless its link was seen.
RECURSIVE UniqueLoop(_, _)
UniqueLoop(all, k) ==
  IF k = 0 THEN [seen_urls |-> {}, unique_results |-> <<>>]
  ELSE LET acc == UniqueLoop(all, k - 1)
       IN IF all[k].link \notin acc.seen_urls
          THEN [seen_urls |-> acc.seen_urls \cup {all[k].link},
                unique_results |-> Append(acc.unique_results, all[k])]
          ELSE acc

UniqueResults(all) == UniqueLoop(all, Len(all)).unique_results

\* Without the slice: every unique result is returned.
FirstResultsUncut(unique) == unique

\* unique_results[: self.max_results]
FirstResults(unique) ==
  SubSeq(unique, 1, IF Len(unique) < max_results THEN Len(unique) ELSE max_results)

\* WebSearchTool(): no search in progress.
InitSearch ==
  /\ SearchAt("idle")
  /\ PipelineAt("idle", None)
  /\ NewCache(1)
  /\ ResearcherAfter(0)

\* search(query): all_results = [], the first loop begins.
Search ==
  \E q \in Queries :
    /\ spc = "idle"
    /\ query' = q
    /\ cur_query' = q
    /\ pass' = 1
    /\ engine' = 1
    /\ all_results' = <<>>
    /\ spc' = "call"
    /\ provider_calls' = <<>>
    /\ UNCHANGED <<engine_results, retry_count, attempts, search_ret>>
    /\ UNCHANGED <<pipelineVars, cacheVars, researchVars, scrapeVars>>

\* results = search_engine(query): _search_duckduckgo enters its loop, a
\* placeholder returns at once.
CallEngine ==
  /\ spc = "call"
  /\ IF search_engines[engine] = "duckduckgo"
     THEN /\ spc' = "ddg"
          /\ retry_count' = 0
          /\ attempts' = 0
          /\ UNCHANGED engine_results
     ELSE /\ spc' = "returned"
          /\ engine_results' = PlaceholderResults
          /\ UNCHANGED <<retry_count, attempts>>
  /\ UNCHANGED <<query, cur_query, pass, engine, all_results, search_ret,
                 provider_calls>>
  /\ UNCHANGED <<pipelineVars, cacheVars, researchVars, scrapeVars>>

\* _search_duckduckgo returns results: its locals are gone.
DdgReturns(results) ==
  /\ engine_results' = results
  /\ spc' = "returned"
  /\ retry_count' = 0
  /\ attempts' = 0

\* One iteration of the loop of _search_duckduckgo, entered while
\* retry_count < max_retries.
\*   found: the direct call, or else the HTML page, gives results: break.
\*   nothing: the direct call gives no result and the HTML page gives none
\*     (or the response is not a 200): the loop goes round.
\*   raised: an exception: retry_count += 1, and the loop ends at max_retries.
DdgAttempt ==
  /\ spc = "ddg"
  /\ retry_count < max_retries
  /\ attempts < MaxAttempts
  /\ \/ \E page \in ApiPages :
          /\ Collected(page) # <<>>
          /\ DdgReturns(Collected(page))
     \/ \E page \in HtmlPages :
          /\ Collected(page) # <<>>
          /\ DdgReturns(Collected(page))
     \/ \E page \in HtmlPages :
          /\ Collected(page) = <<>>
          /\ attempts' = attempts + 1
          /\ UNCHANGED <<spc, engine_results, retry_count>>
     \/ IF retry_count + 1 < max_retries
        THEN /\ retry_count' = retry_count + 1
             /\ attempts' = attempts + 1
             /\ UNCHANGED <<spc, engine_results>>
        ELSE DdgReturns(<<>>)
  /\ UNCHANGED <<query, cur_query, pass, engine, all_results, search_ret,
                 provider_calls>>
  /\ UNCHANGED <<pipelineVars, cacheVars, researchVars, scrapeVars>>

\* The record of the call of the engine in turn, as it ends.
EndedCall(raised, count) ==
  [pass |-> pass, engine |-> engine, query |-> cur_query, raised |-> raised,
   count |-> count]

\* The body of the loop over the engines after the engine returned.
ProcessResults ==
  /\ spc = "returned"
  /\ all_results' = IF engine_results # <<>>
                    THEN all_results \o engine_results ELSE all_results
  /\ IF (engine_results # <<>> /\ Len(all_results') >= max_results)
        \/ engine = Len(search_engines)
     THEN spc' = "after" /\ UNCHANGED engine
     ELSE spc' = "call" /\ engine' = engine + 1
  /\ engine_results' = <<>>
  /\ provider_calls' = Append(provider_calls,
                              EndedCall(FALSE, Len(engine_results)))
  /\ UNCHANGED <<query, cur_query, pass, retry_count, attempts, search_ret>>
  /\ UNCHANGED <<pipelineVars, cacheVars, researchVars, scrapeVars>>

\* A second loop whatever the first one found.
SecondPassAlways(all) == TRUE

\* if not all_results: the second loop is entered.
SecondPassWanted(all) == all = <<>>

\* After a loop over the engines: the second loop with the simplified query
\* when nothing was found, else the duplicates are removed and search returns.
AfterPass ==
  /\ spc = "after"
  /\ IF pass = 1 /\ SecondPassWanted(all_results)
     THEN /\ pass' = 2
          /\ cur_query' = SimplifiedQuery(query)
          /\ engine' = 1
          /\ spc' = "call"
          /\ UNCHANGED search_ret
     ELSE /\ search_ret' = FirstResults(UniqueResults(all_results))
          /\ spc' = "done"
          /\ UNCHANGED <<pass, cur_query, engine>>
  /\ UNCHANGED <<query, engine_results, all_results, retry_count, attempts,
                 provider_calls>>
  /\ UNCHANGED <<pipelineVars, cacheVars, researchVars, scrapeVars>>

NextSearch == Search \/ CallEngine \/ DdgAttempt \/ ProcessResults \/ AfterPass

(***************************************************************************)
(* search over engines that may return any list of results or raise        *)
(***************************************************************************)

\* The lists an engine may return, by the links of their results: none, two,
\* three of which one was seen, and more than max_results.
ProviderResults ==
  { RawPage(ids) : ids \in { <<>>, <<1, 2>>, <<2, 3, 4>>, <<1, 2, 3, 4, 5, 6>> } }

\* An except branch that leaves the loop: no engine is in turn (0).
EngineAfterFailureAborting(e) == 0

\* continue: the next engine of self.search_engines is in turn, none (0)
\* after the last.
EngineAfterFailure(e) == IF e = Len(search_engines) THEN 0 ELSE e + 1

\* results = search_engine(query) returns a list.
ProviderReturns ==
  \E results \in ProviderResults :
    /\ spc = "call"
    /\ engine_results' = results
    /\ spc' = "returned"
    /\ UNCHANGED <<query, cur_query, pass, engine, all_results, retry_count,
                   attempts, search_ret, provider_calls>>
    /\ UNCHANGED <<pipelineVars, cacheVars, researchVars, scrapeVars>>

\* search_engine(query) raises: the except branch logs the error and the
\* loop continues.
ProviderRaises ==
  /\ spc = "call"
  /\ provider_calls' = Append(provider_calls, EndedCall(TRUE, 0))
  /\ IF EngineAfterFailure(engine) = 0
     THEN spc' = "after" /\ UNCHANGED engine
     ELSE spc' = "call" /\ engine' = EngineAfterFailure(engine)
  /\ UNCHANGED <<query, cur_query, pass, engine_results, all_results, retry_count,
                 attempts, search_ret>>
  /\ UNCHANGED <<pipelineVars, cacheVars, researchVars, scrapeVars>>

NextProviders ==
  Search \/ ProviderReturns \/ ProviderRaises \/ ProcessResults \/ AfterPass

(***************************************************************************)
(* WebSearchTool.scrape_content and search_and_scrape                      *)
(***************************************************************************)

\* The most results of the search whose pages are scraped.
MaxScrapeResults == 3

\* What self.search(query) returned: results with distinct links.
ScrapeResults ==
  { FirstResults(UniqueResults(RawPage([i \in 1..n |-> i]))) :
      n \in 0..MaxScrapeResults }

\* How the tiers behave for a URL, were they called: trafilatura.fetch_url
\* raises, returns None or a page; trafilatura.extract, on a page, raises,
\* returns None or text; the driver raises, or renders a page with no text
\* or with text.
TierBehaviours ==
  { t \in [fetch : {"raises", "none", "page"},
           extract : {"raises", "none", "text", "no page"},
           browser : {"raises", "empty", "text"}] :
      (t.extract = "no page") <=> (t.fetch # "page") }

\* What a call may give besides None: a text, or an exception that leaves it.
Text(chars) == [text |-> chars]
Raised == [raised |-> TRUE]

\* A try block that ends before the driver is used.
ExceptCaughtStaticOnly(tier) == tier = "static"

\* The tiers whose statements stand in the try block of scrape_content.
ExceptCaught(tier) == tier \in {"static", "browser"}

\* scrape_content(url) when the tiers behave as t: what it returns, and
\* whether the driver was used.
ScrapeContent(url, t) ==
  LET failed(tier) == IF ExceptCaught(tier) THEN None ELSE Raised
  IN IF t.fetch = "raises"
     THEN [ret |-> failed("static"), browser_used |-> FALSE]
     ELSE IF t.fetch = "page"
     THEN [ret |-> CASE t.extract = "raises" -> failed("static")
                     [] t.extract = "none" -> None
                     [] OTHER -> Text(<<"extracted from ">> \o url),
           browser_used |-> FALSE]
     ELSE [ret |-> CASE t.browser = "raises" -> failed("browser")
                     [] t.browser = "empty" -> Text(<<>>)
                     [] OTHER -> Text(<<"rendered from ">> \o url),
           browser_used |-> TRUE]

\* splitter.split_text(content) on the short texts above: one chunk.
Chunks(chars) == << chars >>

\* Documents whose metadata names the link where the title belongs.
DocumentsTitledByLink(result, chars) ==
  [k \in 1..Len(Chunks(chars)) |->
     [page_content |-> Chunks(chars)[k], source |-> result.link,
      title |-> result.link]]

\* The documents made of the chunks of a result's content.
Documents(result, chars) ==
  [k \in 1..Len(Chunks(chars)) |->
     [page_content |-> Chunks(chars)[k], source |-> result.link,
      title |-> result.title]]

\* The state of a search that returned results.
SearchReturned(results) ==
  /\ spc = "done"
  /\ query = <<"a", "i">>
  /\ cur_query = <<"a", "i">>
  /\ pass = 1
  /\ engine = 1
  /\ engine_results = <<>>
  /\ all_results = results
  /\ retry_count = 0
  /\ attempts = 0
  /\ search_ret = results
  /\ provider_calls = << [pass |-> 1, engine |-> 1, query |-> <<"a", "i">>,
                          raised |-> FALSE, count |-> Len(results)] >>

\* search_and_scrape(query) after results = self.search(query): the loop
\* over the results begins.
InitScrape ==
  /\ \E results \in ScrapeResults : SearchReturned(results)
  /\ ScrapeAt("scrape")
  /\ PipelineAt("idle", None)
  /\ NewCache(1)
  /\ ResearcherAfter(0)

\* content = self.scrape_content(result["link"])
ScrapeCall ==
  \E t \in TierBehaviours :
    LET result == search_ret[ridx]
        outcome == ScrapeContent(result.link, t)
    IN /\ scpc = "scrape"
       /\ ridx <= Len(search_ret)
       /\ scrape_ret' = outcome.ret
       /\ scraped' = Append(scraped,
                            [link |-> result.link, tiers |-> t, ret |-> outcome.ret,
                             browser_used |-> outcome.browser_used])
       /\ scpc' = "process"
       /\ UNCHANGED <<ridx, documents>>
       /\ UNCHANGED <<spc, query, cur_query, pass, engine, engine_results,
                      all_results, retry_count, attempts, search_ret,
                      provider_calls>>
       /\ UNCHANGED <<pipelineVars, cacheVars, researchVars, cliVars>>

\* The rest of the body of the loop: the chunks of a content that is not
\* empty become documents; an exception (of the call, or of the splitter)
\* is logged and the loop continues.
ProcessContent ==
  \E split \in BOOLEAN :
    /\ scpc = "process"
    /\ IF scrape_ret = Raised \/ scrape_ret = None
       THEN /\ split
            /\ UNCHANGED documents
       ELSE IF scrape_ret.text = <<>>
       THEN /\ split
            /\ UNCHANGED documents
       ELSE documents' = IF split
                         THEN documents \o Documents(search_ret[ridx], scrape_ret.text)
                         ELSE documents
    /\ ridx' = ridx + 1
    /\ scrape_ret' = None
    /\ scpc' = "scrape"
    /\ UNCHANGED scraped
    /\ UNCHANGED <<spc, query, cur_query, pass, engine, engine_results,
                   all_results, retry_count, attempts, search_ret, provider_calls>>
    /\ UNCHANGED <<pipelineVars, cacheVars, researchVars, cliVars>>

\* return documents, after the last result.
ReturnDocuments ==
  /\ scpc = "scrape"
  /\ ridx > Len(search_ret)
  /\ scpc' = "done"
  /\ UNCHANGED <<ridx, scrape_ret, scraped, documents>>
  /\ UNCHANGED <<spc, query, cur_query, pass, engine, engine_results,
                 all_results, retry_count, attempts, search_ret, provider_calls>>
  /\ UNCHANGED <<pipelineVars, cacheVars, researchVars, cliVars>>

NextScrape == ScrapeCall \/ ProcessContent \/ ReturnDocuments

(***************************************************************************)
(* main of the command line: the loop over args.platforms                  *)
(***************************************************************************)

\* The longest list of platforms given to --platforms.
MaxPlatforms == 2

\* The names given to --platforms: supported ones and one that is not.
CliPlatformNames == {"x", "linkedin", "tiktok"}

\* args.platforms: nargs="+" takes one name or more, repeats allowed.
PlatformLists ==
  UNION { [1..n -> CliPlatformNames] : n \in 1..MaxPlatforms }

\* The posts generate_post may return for a platform: for "x" a thread of one
\* tweet or of two, else one text.
CliPosts(platform) ==
  IF platform = "x"
  THEN { <<"t">>, <<"t">> \o THREAD_SEPARATOR \o <<"u">> }
  ELSE { <<"p">> }

\* The exceptions the try block of the loop may meet: the ValueError of an
\* unsupported platform or of a stage, any other Exception.
CliErrors == {"ValueError", "Exception"}

\* An except branch that leaves the loop.
AfterErrorLeaving(idx, count) == count + 1

\* The place of the loop after an except branch has printed the error: the
\* next platform of the list.
AfterError(idx, count) == idx + 1

\* The loop at place idx of a list of count platforms: the next try, or main
\* returns.
LoopAt(idx, count) ==
  /\ cidx' = idx
  /\ cpc' = IF idx > count THEN "done" ELSE "generate"
  /\ to_write' = <<>>
  /\ widx' = 0

InitCli ==
  /\ PipelineAt("idle", None)
  /\ NewCache(1)
  /\ ResearcherAfter(0)
  /\ SearchAt("idle")

\* main up to the loop: the arguments are parsed and the topic file is read.
CliMain ==
  \E list \in PlatformLists :
    /\ cpc = "idle"
    /\ platforms' = list
    /\ LoopAt(1, Len(list))
    /\ UNCHANGED <<attempted, reported, written>>
    /\ UNCHANGED <<scpc, ridx, scrape_ret, scraped, documents>>
    /\ UNCHANGED <<spc, query, cur_query, pass, engine, engine_results,
                   all_results, retry_count, attempts, search_ret, provider_calls>>
    /\ UNCHANGED <<pipelineVars, cacheVars, researchVars>>

\* agent.generate_post returns the post of a supported platform; save_post
\* is entered with the files it is to write.
CliGenerateReturns ==
  /\ cpc = "generate"
  /\ IsSupported(platforms[cidx])
  /\ \E post_text \in CliPosts(platforms[cidx]) :
       to_write' = SavedFiles(post_text, platforms[cidx])
  /\ widx' = 1
  /\ cpc' = "save"
  /\ attempted' = Append(attempted, [platform |-> platforms[cidx],
                                     returned |-> TRUE])
  /\ UNCHANGED <<platforms, cidx, reported, written>>
  /\ UNCHANGED <<scpc, ridx, scrape_ret, scraped, documents>>
  /\ UNCHANGED <<spc, query, cur_query, pass, engine, engine_results,
                 all_results, retry_count, attempts, search_ret, provider_calls>>
  /\ UNCHANGED <<pipelineVars, cacheVars, researchVars>>

\* agent.generate_post raises (always so for a platform that is not
\* supported): the except branch prints the error and the loop goes on.
CliGenerateRaises ==
  \E error \in CliErrors :
    /\ cpc = "generate"
    /\ attempted' = Append(attempted, [platform |-> platforms[cidx],
                                       returned |-> FALSE])
    /\ reported' = reported \cup {[at |-> cidx, branch |-> error]}
    /\ LoopAt(AfterError(cidx, Len(platforms)), Len(platforms))
    /\ UNCHANGED <<platforms, written>>
    /\ UNCHANGED <<scpc, ridx, scrape_ret, scraped, documents>>
    /\ UNCHANGED <<spc, query, cur_query, pass, engine, engine_results,
                   all_results, retry_count, attempts, search_ret, provider_calls>>
    /\ UNCHANGED <<pipelineVars, cacheVars, researchVars>>

\* save_post writes its next file; after the last one the loop goes on.
CliWriteFile ==
  /\ cpc = "save"
  /\ written' = Append(written, [at |-> cidx, file |-> to_write[widx]])
  /\ IF widx = Len(to_write)
     THEN LoopAt(cidx + 1, Len(platforms))
     ELSE /\ widx' = widx + 1
          /\ UNCHANGED <<cpc, cidx, to_write>>
  /\ UNCHANGED <<platforms, attempted, reported>>
  /\ UNCHANGED <<scpc, ridx, scrape_ret, scraped, documents>>
  /\ UNCHANGED <<spc, query, cur_query, pass, engine, engine_results,
                 all_results, retry_count, attempts, search_ret, provider_calls>>
  /\ UNCHANGED <<pipelineVars, cacheVars, researchVars>>

\* save_post raises (mkdir or open fails with an OSError): the files it has
\* written stay, the except branch prints the error and the loop goes on.
CliWriteRaises ==
  /\ cpc = "save"
  /\ reported' = reported \cup {[at |-> cidx, branch |-> "Exception"]}
  /\ LoopAt(AfterError(cidx, Len(platforms)), Len(platforms))
  /\ UNCHANGED <<platforms, attempted, written>>
  /\ UNCHANGED <<scpc, ridx, scrape_ret, scraped, documents>>
  /\ UNCHANGED <<spc, query, cur_query, pass, engine, engine_results,
                 all_results, retry_count, attempts, search_ret, provider_calls>>
  /\ UNCHANGED <<pipelineVars, cacheVars, researchVars>>

NextCli ==
  CliMain \/ CliGenerateReturns \/ CliGenerateRaises \/ CliWriteFile
    \/ CliWriteRaises

(***************************************************************************)
(* Specifications                                                          *)
(***************************************************************************)

\* _validate_post on the formatted contents, then save_post.
SpecValidate == InitValidate /\ [][NextValidate]_vars

\* The generate_post calls on one SocialMediaAgent.
SpecPipeline == InitPipeline /\ [][NextPipeline]_vars

\* The calls of a ResearchCache as time passes.
SpecCache == InitCache /\ [][NextCache]_vars

\* The calls of concurrent threads on one ResearchCache.
SpecThreads == InitThreads /\ [][NextThreads]_vars

\* The research_topic calls of a ResearcherAgent as time passes.
SpecResearch == InitResearch /\ [][NextResearch]_vars

\* A search call of a WebSearchTool.
SpecSearch == InitSearch /\ [][NextSearch]_vars

\* A search call of a WebSearchTool whose engines behave in any way.
SpecProviders == InitSearch /\ [][NextProviders]_vars

\* The loop of search_and_scrape over the results of its search.
SpecScrape == InitScrape /\ [][NextScrape]_vars

\* main of the command line over every list of platforms.
SpecCli == InitCli /\ [][NextCli]_vars

(***************************************************************************)
(* Properties of the cache, the researcher and the search                  *)
(***************************************************************************)

\* C2: an entry set at time T0 in a cache of duration D, and not cleared
\* since, is returned by get at every time before T0 + D and reported absent
\* by get at every time after T0 + D; get never returns data that is not the
\* data of the latest set or whose age is D or more.
C2_Expiry ==
  op.name = "get"
  => LET isSet == op.topic \in DOMAIN lastSet
         set == lastSet[op.topic]
     IN /\ (isSet /\ op.time < set.time + cache_duration) => ret = set.data
        /\ (isSet /\ op.time > set.time + cache_duration) => ret = None
        /\ ret # None => /\ isSet
                         /\ ret = set.data
                         /\ op.time - set.time < cache_duration

\* C2's case: a get one hour before the entry's expiry has returned its data.
C2_Witness ==
  /\ op.name = "get"
  /\ op.topic \in DOMAIN lastSet
  /\ op.time = lastSet[op.topic].time + cache_duration - 1
  /\ ret = lastSet[op.topic].data

\* Whether the step is a call of the cache operation of the given name (a
\* call that changes nothing at all is no step).
CacheCall(name) ==
  /\ <<op, ret, cache, lastSet>>' # <<op, ret, cache, lastSet>>
  /\ op'.name = name

\* The entries of the dict c other than topic's are those of the dict d.
OthersUntouched(c, d, topic) ==
  /\ DOMAIN d \ {topic} = DOMAIN c \ {topic}
  /\ \A other \in DOMAIN c \ {topic} : d[other] = c[other]

C23_SetOverwrites ==
  [][ /\ CacheCall("set")
        => LET topic == op'.topic
           IN /\ topic \in DOMAIN cache'
              /\ cache'[topic] = [data |-> lastSet'[topic].data, timestamp |-> now]
              /\ lastSet'[topic].time = now
              /\ OthersUntouched(cache, cache', topic)
      /\ (CacheCall("get") /\ op'.topic \in DOMAIN lastSet
            /\ now < lastSet[op'.topic].time + cache_duration)
        => ret' = lastSet[op'.topic].data ]_vars

\* A set made when an earlier entry could have expired was followed, before
\* the new entry's expiry, by a get that returned the data of that set; the
\* entry carries the time of the set.
C23_Witness ==
  /\ op.name = "get"
  /\ op.topic \in DOMAIN lastSet
  /\ lastSet[op.topic].time >= cache_duration
  /\ op.time > lastSet[op.topic].time
  /\ op.time < lastSet[op.topic].time + cache_duration
  /\ ret = lastSet[op.topic].data
  /\ cache[op.topic].timestamp = lastSet[op.topic].time

\* C24: remove_expired() deletes every entry whose age is the cache duration
\* or more, and leaves every entry whose age is less in place, its data and
\* its timestamp unchanged; it adds no entry.
C24_RemoveExpiredFrame ==
  [][ CacheCall("remove_expired")
        => /\ DOMAIN cache' \subseteq DOMAIN cache
           /\ \A topic \in DOMAIN cache :
                IF now - cache[topic].timestamp >= cache_duration
                THEN topic \notin DOMAIN cache'
                ELSE topic \in DOMAIN cache' /\ cache'[topic] = cache[topic] ]_vars

\* remove_expired has deleted an entry whose age was the duration exactly
\* and kept the other topic's entry, which was younger.
C24_Witness ==
  /\ op.name = "remove_expired"
  /\ \E topic \in DOMAIN lastSet :
       /\ op.time = lastSet[topic].time + cache_duration
       /\ topic \notin DOMAIN cache
       /\ \E other \in DOMAIN cache :
            /\ other # topic
            /\ op.time - cache[other].timestamp < cache_duration
            /\ cache[other] = [data |-> lastSet[other].data,
                               timestamp |-> lastSet[other].time]

\* C37: get runs remove_expired: right after a get no entry of the dict, of
\* any topic, is as old as the cache duration at the time of the call.
C37_GetRemovesAllExpired ==
  op.name = "get"
    => \A topic \in DOMAIN cache :
         op.time - cache[topic].timestamp < cache_duration

\* C38: get and remove_expired draw the same line: at any instant an entry
\* is one remove_expired would delete exactly when get on its topic would
\* return None, an age equal to the duration counting as expired; right after
\* remove_expired a get on any topic still in the dict returns its data.
C38_SameExpiryBoundary ==
  /\ \A topic \in DOMAIN cache :
       /\ topic \notin DOMAIN CacheAfterRemoveExpired(cache, now, cache_duration)
            <=> GetReturn(cache, topic, now, cache_duration) = None
       /\ now - cache[topic].timestamp = cache_duration
            => /\ topic \notin DOMAIN CacheAfterRemoveExpired(cache, now,
                                                             cache_duration)
               /\ topic \notin DOMAIN CacheAfterGet(cache, topic, now,
                                                    cache_duration)
  /\ op.name = "remove_expired"
       => \A topic \in DOMAIN cache :
            GetReturn(cache, topic, op.time, cache_duration) = cache[topic].data

\* remove_expired has run at the instant an entry reached the duration: that
\* entry is gone, and the entry that is left, one hour younger, is one a get
\* at that instant returns.
C38_Witness ==
  /\ op.name = "remove_expired"
  /\ now = op.time
  /\ \E gone \in DOMAIN lastSet \ DOMAIN cache :
       op.time - lastSet[gone].time = cache_duration
  /\ \E kept \in DOMAIN cache :
       /\ op.time - cache[kept].timestamp = cache_duration - 1
       /\ GetReturn(cache, kept, now, cache_duration) = cache[kept].data

\* C25: under any interleaving of get, set, clear and remove_expired by
\* concurrent threads on one cache, no call fails.
C25_NoOperationFails == \A t \in Threads : terr[t] = "none"

\* The call that returned last followed a call on its topic that invoked the
\* agent, and began less than cache_duration after that call returned.
SecondWithinDuration ==
  /\ finished # None
  /\ prev # None
  /\ prev.invoked
  /\ finished.start - prev.end < cache_duration

\* C3, as stated: of two research_topic calls with the same topic within the
\* cache duration only the first invokes the agent, and the second returns
\* what the first returned.
C3_SecondCallAsStated ==
  SecondWithinDuration => ~finished.invoked /\ finished.ret = prev.ret

\* C3: of two research_topic calls with the same topic within the cache
\* duration, the first of which invoked the agent without a failure, only the
\* first invokes the agent, and the second returns what the first returned.
C3_SecondCallServedFromCache ==
  (SecondWithinDuration /\ ~prev.failed)
  => ~finished.invoked /\ finished.ret = prev.ret

\* C3's case: a call later than a successful call on its topic, within the
\* cache duration, has returned that call's result without invoking the agent.
C3_Witness ==
  /\ SecondWithinDuration
  /\ ~prev.failed
  /\ finished.start > prev.end
  /\ ~finished.invoked
  /\ finished.ret = prev.ret

\* C4: the loop of _search_duckduckgo goes round at most max_retries times
\* before it returns, whatever its attempts produce.
C4_AtMostMaxRetries == attempts <= max_retries

\* The links of a list of results, and where a link occurs in it.
Links(rs) == {rs[i].link : i \in 1..Len(rs)}

Occurrences(rs, link) == {i \in 1..Len(rs) : rs[i].link = link}

FirstAt(rs, link) == MinOf(Occurrences(rs, link))

\* The list search returned has no two results with the same link, and its
\* results stand in the order in which their links were first found.
NoDuplicateInOrder ==
  /\ \A i, j \in 1..Len(search_ret) :
       i # j => search_ret[i].link # search_ret[j].link
  /\ \A i, j \in 1..Len(search_ret) :
       i < j => FirstAt(all_results, search_ret[i].link)
                  < FirstAt(all_results, search_ret[j].link)

\* C5, as stated: the list search returns has no two results with the same
\* link; of the accumulated results that share a link exactly one is kept, the
\* first occurrence, and the order of discovery is preserved.
C5_OneKeptAsStated ==
  spc = "done"
  => /\ NoDuplicateInOrder
     /\ \A link \in Links(all_results) :
          Cardinality(Occurrences(all_results, link)) > 1
          => \E k \in 1..Len(search_ret) :
               /\ Occurrences(search_ret, link) = {k}
               /\ search_ret[k] = all_results[FirstAt(all_results, link)]

\* C5: the list search returns has no two results with the same link; every
\* result kept is the first occurrence of its link, in the order of discovery;
\* the links kept are the first max_results distinct links found, so the
\* results of a link found later are all dropped.
C5_Dedup ==
  spc = "done"
  => /\ NoDuplicateInOrder
     /\ \A k \in 1..Len(search_ret) :
          search_ret[k] = all_results[FirstAt(all_results, search_ret[k].link)]
     /\ \A link \in Links(all_results) :
          link \in Links(search_ret)
          <=> Cardinality({l \in Links(all_results) :
                             FirstAt(all_results, l) < FirstAt(all_results, link)})
                < max_results

\* C5's case: search has returned after accumulating results that share a
\* link, one of them between two results of other links.
C5_Witness ==
  /\ spc = "done"
  /\ Len(search_ret) >= 3
  /\ \E i, j \in 1..Len(all_results) :
       /\ i + 1 < j
       /\ all_results[i].link = all_results[j].link
       /\ all_results[i + 1].link # all_results[i].link

\* C11: research_topic never raises to its caller: a call in which the tool
\* loop or the processing of its output failed has returned the default
\* structure, whose four fields are the fixed "unavailable" messages.
C11_FallbackNeverRaises ==
  /\ rpc # "raised"
  /\ (finished # None /\ finished.failed)
     => /\ finished.ret.summary = <<"Unable to research topic '", finished.topic,
                                    "' at this time. Please try again later.">>
        /\ finished.ret.key_facts = <<"No key facts available.">>
        /\ finished.ret.trends = <<"No trends available.">>
        /\ finished.ret.sources = <<"No sources available.">>

\* C11's case: a call whose output could not be processed has returned the
\* default structure.
C11_Witness ==
  /\ rpc = "idle"
  /\ finished # None
  /\ finished.failed
  /\ failure = "extract"
  /\ finished.ret = Fallback(finished.topic)

\* C32: a research_topic call whose agent run succeeded leaves the cache with
\* its result under the topic as passed and every other entry as it was (the
\* lookup at the start of a call touches no other entry either); a later call
\* with the same topic and other focus areas, while that entry is fresh, is
\* served from the cache and returns the earlier result.
C32_CachedUnderTopic ==
  /\ [][ /\ (rpc = "running" /\ rpc' = "idle" /\ ~finished'.failed)
            => /\ finished'.topic \in DOMAIN cache'
               /\ cache'[finished'.topic] = [data |-> finished'.ret,
                                             timestamp |-> now]
               /\ OthersUntouched(cache, cache', finished'.topic)
         /\ (rpc = "idle" /\ ncalls' # ncalls)
            => OthersUntouched(cache, cache',
                               IF rpc' = "running" THEN call'.topic
                               ELSE finished'.topic) ]_vars
  /\ [](( /\ SecondWithinDuration
          /\ ~prev.failed
          /\ finished.focus_areas # prev.focus_areas )
        => ~finished.invoked /\ finished.ret = prev.ret)

\* A call with focus areas, after a successful call on the same topic without
\* them, has returned that call's result from the cache.
C32_Witness ==
  /\ SecondWithinDuration
  /\ ~prev.failed
  /\ prev.focus_areas = <<>>
  /\ finished.focus_areas # <<>>
  /\ ~finished.invoked
  /\ finished.ret = prev.ret
  /\ finished.topic \in DOMAIN cache
  /\ cache[finished.topic].data = prev.ret

\* The step in which a research_topic call returns the default structure.
FailedCallReturns == rpc = "running" /\ rpc' = "idle" /\ finished'.failed

\* C33 as stated: a research_topic call that returns the default structure
\* leaves the cache as it found it, and the next call on the same topic runs
\* the agent again.
C33_FailureLeavesCacheAsStated ==
  /\ [][FailedCallReturns => cache' = call.cache_before]_vars
  /\ []((finished # None /\ prev # None /\ prev.failed) => finished.invoked)

\* C33, amended: a research_topic call that returns the default structure
\* stores nothing: afterwards the cache holds no entry for the topic, the
\* entries of the other topics are as the call found them, and an entry the
\* topic had was an expired one, deleted by the lookup at the start of the
\* call; the next call on the same topic runs the agent again.
C33_FallbackNeverStored ==
  /\ [][FailedCallReturns
          => LET topic == finished'.topic
                 before == call.cache_before
             IN /\ topic \notin DOMAIN cache'
                /\ OthersUntouched(before, cache', topic)
                /\ topic \in DOMAIN before
                   => call.start - before[topic].timestamp >= cache_duration ]_vars
  /\ []((finished # None /\ prev # None /\ prev.failed) => finished.invoked)

\* A call on a topic whose entry, stored by an earlier call, had expired has
\* returned the default structure: the entry is gone and nothing is stored.
C33_Witness ==
  /\ finished # None
  /\ finished.failed
  /\ prev # None
  /\ prev.invoked /\ ~prev.failed
  /\ finished.start - prev.end >= cache_duration
  /\ finished.topic \notin DOMAIN cache

\* C29: in each loop over the providers, the loop ends before the last
\* provider only when the accumulated results hold max_results distinct links:
\* with fewer distinct links and providers left, the next provider is called.
C29_StopsOnlyAtMaxUnique ==
  spc = "after"
    => \/ Cardinality(Links(all_results)) >= max_results
       \/ provider_calls[Len(provider_calls)].engine = Len(search_engines)

\* Whether the content holds nothing but hashtags and whitespace.
OnlyHashtags(chars) ==
  LET tokens == SplitWhitespace(chars)
  IN \A k \in 1..Len(tokens) :
       /\ Len(tokens[k]) >= 2
       /\ tokens[k][1] = "#"
       /\ \A j \in 2..Len(tokens[k]) : IsWordChar(tokens[k][j])

\* C28: _split_into_thread on a content that is empty, or empty once its
\* hashtags are taken out, returns no tweet: no tweet of the marker alone,
\* of a counter alone or of hashtags alone.
C28_EmptyContentNoTweets ==
  (Validated /\ state.platform = "x" /\ OnlyHashtags(state.formatted_content))
    => /\ tweets = <<>>
       /\ state.final_content = <<>>

\* The thread of a content of two hashtags and nothing else is empty.
C28_Witness ==
  /\ Validated
  /\ state.platform = "x"
  /\ state.formatted_content = <<"#", "a", " ", "#", "b">>
  /\ tweets = <<>>

\* C30: for a supported platform that is not taken for "x", final_content
\* after validate_post is at most max_length characters long, also when the
\* hashtag step shortens a content that the length limit has already cut.
C30_WithinMaxLength ==
  (Validated /\ state.platform # "x" /\ IsSupported(state.platform))
    => Len(state.final_content) <= GetPlatformConfig(state.platform).max_length

\* A content over max_length was cut, the cut text held more hashtags than
\* the limit, and the hashtag step made it shorter still.
C30_Witness ==
  LET config == GetPlatformConfig(state.platform)
  IN /\ Validated /\ state.platform # "x" /\ IsSupported(state.platform)
     /\ Len(state.formatted_content) > config.max_length
     /\ HashtagCount(Truncate(state.formatted_content, config.max_length))
          > config.hashtag_limit
     /\ state.final_content
          = TrimHashtags(Truncate(state.formatted_content, config.max_length),
                         config.hashtag_limit)
     /\ Len(state.final_content) < config.max_length

\* The content as it reaches the hashtag step of _validate_post: the tweets
\* joined by the separator for "x", else the content within the length limit.
BeforeHashtagStep ==
  IF state.platform = "x"
  THEN JoinWith(tweets, THREAD_SEPARATOR)
  ELSE ThreadOrTruncate(state.platform, state.formatted_content,
                        GetPlatformConfig(state.platform))

BodySentences(content) ==
  IF StrippedBody(content) = <<>> THEN <<>> ELSE SentencesOf(content)

\* The text of the tweet at position i of n before the marker and the counter
\* were added to it.
TweetBody(t, i, n) ==
  LET stem == Stem(t)
  IN SubSeq(stem, 1, Len(stem) - Len(ExpectedCounter(i, n))
                       - (IF i = 1 THEN Len(<<" ", THREAD_MARKER>>) ELSE 0))

\* The sequences of a sequence, one after the other.
RECURSIVE Flatten(_)
Flatten(seqs) ==
  IF seqs = <<>> THEN <<>> ELSE Head(seqs) \o Flatten(Tail(seqs))

RECURSIVE SumOf(_)
SumOf(ns) == IF ns = <<>> THEN 0 ELSE Head(ns) + SumOf(Tail(ns))

\* How many times sub occurs in s.
CountOf(s, sub) ==
  Cardinality({i \in 1..(Len(s) - Len(sub) + 1) :
                 \A k \in 1..Len(sub) : s[i + k - 1] = sub[k]})

\* C35: the hashtags taken out of the content are kept as a set: a hashtag
\* that occurs several times in the content counts once when the hashtags are
\* fitted to the last tweet (they are appended when the tweet, a space and the
\* distinct hashtags joined by spaces are at most 280 characters) and occurs
\* at most once in the thread.
C35_HashtagsKeptAsSet ==
  (Validated /\ state.platform = "x" /\ tweets # <<>>)
    => LET hashtags == FindHashtags(state.formatted_content)
           distinct == {hashtags[k] : k \in 1..Len(hashtags)}
           width == Cardinality(distinct)
                      + SumOf([k \in 1..Len(hashtags) |->
                               IF \E j \in 1..(k - 1) : hashtags[j] = hashtags[k]
                               THEN 0 ELSE Len(hashtags[k])])
           last == tweets[Len(tweets)]
       IN /\ \A h \in distinct :
               SumOf([i \in 1..Len(tweets) |-> CountOf(tweets[i], h)]) <= 1
          /\ (distinct # {} /\ Len(Stem(last)) + width <= MAX_TWEET_LENGTH)
               => \A h \in distinct : CountOf(last, h) = 1

\* C15: for a supported platform written in any letter case, validate_post
\* gives the final_content it gives for the lower-case name.
C15_ValidatedAsLowerCase ==
  (Validated /\ IsSupported(state.platform))
    => state.final_content
         = ValidatedContent(Lower(state.platform), state.formatted_content)

\* The results the ended calls returned, counted.
RECURSIVE CountReturned(_)
CountReturned(ended) ==
  IF ended = <<>> THEN 0
  ELSE (IF ended[1].raised THEN 0 ELSE ended[1].count) + CountReturned(Tail(ended))

\* C16: a failure raised by an engine is caught in search and the loop goes
\* on with the next engine of the fixed order: the failure does not end the
\* search, the results accumulated before it are all kept, and the engine
\* after the one that failed is called in the same loop.
C16_FailureGoesOnToNextProvider ==
  /\ \A i \in 1..Len(provider_calls) :
       (provider_calls[i].raised /\ provider_calls[i].engine < Len(search_engines))
         => IF i < Len(provider_calls)
            THEN /\ provider_calls[i + 1].engine = provider_calls[i].engine + 1
                 /\ provider_calls[i + 1].pass = provider_calls[i].pass
            ELSE /\ spc \in {"call", "returned"}
                 /\ engine = provider_calls[i].engine + 1
                 /\ pass = provider_calls[i].pass
  /\ spc # "returned" => Len(all_results) = CountReturned(provider_calls)
  /\ spc = "done" => Len(search_ret) >= MinOf({Cardinality(Links(all_results)),
                                              max_results})

\* DuckDuckGo returned results, Google raised, Bing was still called and
\* returned results, and search returned results of both engines.
C16_Witness ==
  /\ spc = "done"
  /\ Len(provider_calls) = 3
  /\ provider_calls[1].count = 2
  /\ provider_calls[2].raised
  /\ provider_calls[3].engine = 3
  /\ provider_calls[3].count = 3
  /\ Len(search_ret) = 4

\* The ended calls of a loop, and whether an engine was called in it.
CallsOfPass(p) == SelectSeq(provider_calls, LAMBDA c : c.pass = p)

\* C17: the second loop runs if and only if the first loop over the engines
\* accumulated no result, and at most once: a call of the first loop has the
\* query as given, a call of the second the first three whitespace-separated
\* tokens of it joined by single spaces, and in each loop an engine is called
\* at most once, so at most twice in the search.
C17_SecondPassIffNothingFound ==
  LET first == CallsOfPass(1)
      second == CallsOfPass(2)
      tokens == SplitWhitespace(query)
      three == IF Len(tokens) <= 3 THEN tokens ELSE <<tokens[1], tokens[2], tokens[3]>>
  IN /\ pass \in 0..2
     /\ Len(provider_calls) = Len(first) + Len(second)
     /\ \A i \in 1..Len(first) : first[i].engine = i /\ first[i].query = query
     /\ \A i \in 1..Len(second) :
          /\ second[i].engine = i
          /\ second[i].query = JoinWith(three, <<" ">>)
     /\ Len(first) <= Len(search_engines)
     /\ Len(second) <= Len(search_engines)
     /\ pass = 2 => /\ Len(first) = Len(search_engines)
                    /\ CountReturned(first) = 0
     /\ spc = "done" => (pass = 2 <=> CountReturned(first) = 0)

\* A search for a query of four tokens whose first loop found nothing (one
\* engine raised, two returned no result) and whose second loop, with three
\* tokens, found results.
C17_Witness ==
  /\ spc = "done"
  /\ pass = 2
  /\ Len(SplitWhitespace(query)) = 4
  /\ cur_query = <<"a", "i", " ", "i", "n", " ", "e", "d", "u">>
  /\ \E i \in 1..3 : provider_calls[i].raised
  /\ \E i \in 1..3 : ~provider_calls[i].raised
  /\ Len(search_ret) > 0

\* C18: whatever the query and whatever the engines return, search returns
\* at most max_results results.
C18_AtMostMaxResults ==
  spc = "done" => Len(search_ret) <= max_results

\* More distinct results than max_results were accumulated, and search
\* returned max_results of them.
C18_Witness ==
  /\ spc = "done"
  /\ Cardinality(Links(all_results)) > max_results
  /\ Len(search_ret) = max_results

\* Whether a tier raised while scrape_content used it.
TierRaised(entry) ==
  \/ entry.tiers.fetch = "raises"
  \/ entry.tiers.extract = "raises"
  \/ (entry.tiers.fetch = "none" /\ entry.tiers.browser = "raises")

\* C19: scrape_content never raises: when the static tier or the browser
\* tier raises it returns None for that URL; search_and_scrape scrapes every
\* result in order whatever happened to the ones before, and a result whose
\* scrape failed or gave nothing leaves no document.
C19_ScrapeNeverRaises ==
  /\ \A i \in 1..Len(scraped) :
       /\ scraped[i].ret # Raised
       /\ TierRaised(scraped[i]) => scraped[i].ret = None
       /\ scraped[i].link = search_ret[i].link
  /\ scpc = "done" => Len(scraped) = Len(search_ret)
  /\ \A k \in 1..Len(documents) :
       \E i \in 1..Len(scraped) :
         /\ scraped[i].link = documents[k].source
         /\ scraped[i].ret = Text(documents[k].page_content)
         /\ documents[k].page_content # <<>>

\* Of three results the first's browser tier raised, the second's extraction
\* raised, and the third was still scraped and gave the only document.
C19_Witness ==
  /\ scpc = "done"
  /\ Len(scraped) = 3
  /\ scraped[1].tiers.fetch = "none" /\ scraped[1].tiers.browser = "raises"
  /\ scraped[1].ret = None
  /\ scraped[2].tiers.extract = "raises"
  /\ scraped[2].ret = None
  /\ Len(documents) = 1
  /\ documents[1].source = search_ret[3].link

\* C20: scrape_content uses the browser whenever the static tier yields no
\* text, be it that the download failed or that the page was downloaded and
\* the extraction gave nothing, and does not use it when the static tier
\* yields text.
C20_BrowserIffNoStaticText ==
  \A i \in 1..Len(scraped) :
    LET t == scraped[i].tiers
    IN /\ (t.fetch = "none" \/ (t.fetch = "page" /\ t.extract = "none"))
            => scraped[i].browser_used
       /\ (t.fetch = "page" /\ t.extract = "text") => ~scraped[i].browser_used

\* The index in the results of the search of the result with the link.
ResultAt(link) == CHOOSE i \in 1..Len(search_ret) : search_ret[i].link = link

RunEnded == stage \in {"returned", "raised"}

\* C12 as stated: every pipeline run executes the four stages
\* research_topic, generate_content, format_post, validate_post in that
\* order, each exactly once.
C12_EveryRunExecutesAllFour ==
  RunEnded
    => executed = <<"research_topic", "generate_content", "format_post",
                    "validate_post">>

\* C12, amended: the stages a run has executed are always the first ones of
\* the fixed order research_topic, generate_content, format_post,
\* validate_post, each once and none skipped or repeated; the run starts at
\* research_topic; the stage it stands at is the one that follows the last
\* executed; and a run that ends without an exception has executed all four.
C12_StagesInFixedOrder ==
  LET order == <<"research_topic", "generate_content", "format_post",
                 "validate_post">>
  IN /\ Len(executed) <= 4
     /\ \A i \in 1..Len(executed) : executed[i] = order[i]
     /\ stage \in {"research_topic", "generate_content", "format_post",
                   "validate_post"}
          => /\ Len(executed) < 4
             /\ stage = order[Len(executed) + 1]
     /\ stage \in {"END", "returned"} => executed = order
     /\ stage = "raised" => Len(executed) >= 1

\* A second run on the same agent has returned, its four stages executed.
C12_Witness ==
  /\ stage = "returned"
  /\ ncalls = 2
  /\ executed = <<"research_topic", "generate_content", "format_post",
                  "validate_post">>

\* C13: generate_post(topic, platform, tone) runs the pipeline on a state
\* made of its arguments, and what it returns is the final_content that
\* validate_post wrote in that run; nothing is returned by a run that raises.
C13_ReturnsFinalContent ==
  /\ run_start # None
       => /\ state.content = run_start.args[1]
          /\ state.platform = run_start.args[2]
          /\ state.tone = run_start.args[3]
  /\ stage = "returned"
       => /\ post = state.final_content
          /\ post = ValidatedContent(run_start.args[2], state.formatted_content)
          /\ executed[Len(executed)] = "validate_post"
  /\ stage # "returned" => post = None

\* A run with a tone of its own has returned a post that validate_post had
\* to cut.
C13_Witness ==
  /\ stage = "returned"
  /\ run_start.args[3] = "casual"
  /\ post # state.formatted_content
  /\ post = state.final_content

FieldOf(node) ==
  CASE node = "research_topic" -> "researched_content"
    [] node = "generate_content" -> "generated_content"
    [] node = "format_post" -> "formatted_content"
    [] node = "validate_post" -> "final_content"

IsContentWithHashtags(text, content, limit) ==
  /\ Len(text) > Len(content) + 2
  /\ SubSeq(text, 1, Len(content)) = content
  /\ SubSeq(text, Len(content) + 1, Len(content) + 2) = <<"\n", "\n">>
  /\ LET block == SubSeq(text, Len(content) + 3, Len(text))
         tags == SplitWhitespace(block)
     IN /\ block = JoinWith(tags, <<" ">>)
        /\ Len(tags) \in 1..limit
        /\ \A k \in 1..Len(tags) : tags[k][1] = "#" /\ Len(tags[k]) >= 2

FailedPlaces ==
  {k \in 1..Len(attempted) : (cpc = "done" \/ k < cidx)
                               /\ \E r \in reported : r.at = k}

\* The generate_post calls made so far were made for the platforms of the
\* list in its order, one for each place; when main returns there was one for
\* every place; every try block that ended with an error printed it once.
AttemptsInListOrder ==
  /\ Len(attempted) <= Len(platforms)
  /\ \A k \in 1..Len(attempted) : attempted[k].platform = platforms[k]
  /\ cpc = "generate" => Len(attempted) = cidx - 1
  /\ cpc = "done" => Len(attempted) = Len(platforms)
  /\ \A k \in 1..Len(attempted) :
       (~attempted[k].returned \/ ~IsSupported(platforms[k]))
         => Cardinality({r \in reported : r.at = k}) = 1
  /\ \A r, q \in reported : r.at = q.at => r = q

\* C36 as stated: generation is attempted for every platform of the list, in
\* its order, once each, and a platform whose try block ended with an error
\* has the error printed and no file written.
C36_FailureSavesNothingAsStated ==
  /\ AttemptsInListOrder
  /\ \A k \in FailedPlaces : \A i \in 1..Len(written) : written[i].at # k

\* C36, amended: generation is attempted for every platform of the list, in
\* its order, once each, whatever failed before; a platform whose
\* generate_post raised (as for every unsupported name) has the error printed
\* and no file written; a platform whose save_post raised has the error
\* printed and keeps the files written before the error, fewer than the post
\* has.
C36_EveryPlatformAttempted ==
  /\ AttemptsInListOrder
  /\ \A k \in 1..Len(attempted) :
       ~attempted[k].returned
         => \A i \in 1..Len(written) : written[i].at # k
  /\ \A i \in 1..Len(written) :
       /\ attempted[written[i].at].returned
       /\ IsSupported(platforms[written[i].at])
  /\ \A k \in FailedPlaces :
       attempted[k].returned
         => \E post_text \in CliPosts(platforms[k]) :
              Cardinality({i \in 1..Len(written) : written[i].at = k})
                < Len(SavedFiles(post_text, platforms[k]))

\* main has returned for the list "tiktok", "x": the first attempt failed and
\* wrote nothing, the second was made and saved the two tweets of its thread.
C36_Witness ==
  /\ cpc = "done"
  /\ platforms = <<"tiktok", "x">>
  /\ reported = {[at |-> 1, branch |-> "ValueError"]}
  /\ Len(attempted) = 2
  /\ attempted[2].returned
  /\ Len(written) = 2
  /\ \A i \in 1..2 : written[i].at = 2

====
